---- MODULE Spec2Model ----
(***************************************************************************)
(* xrp: HTML/XML-aware reverse proxy.                                      *)
(* Model of the proxy orchestrator (internal/proxy), the plugin manager    *)
(* (internal/plugins), the configuration accessors (internal/config) and   *)
(* the cache engine (internal/cache, known through its callers and tests). *)
(***************************************************************************)
EXTENDS Integers, Sequences, FiniteSets, TLC

(***************************************************************************)
(* Bounds of the model.                                                    *)
(***************************************************************************)
\* number of UpdateConfig calls explored
MaxReloads == 2
\* number of clock steps explored
MaxTicks == 3
\* how many bytes past the size limit an upstream body may be
MaxOver == 2
\* longest plugin list handed to the plugin loop
MaxPlugins == 3

(***************************************************************************)
(* Program constants.                                                      *)
(***************************************************************************)
\* time.Hour, the fallback TTL, in seconds
DefaultTTL == 3600
\* http.StatusOK
StatusOK == 200
\* http.StatusBadGateway, written by httputil.ReverseProxy when
\* ModifyResponse returns an error
StatusBadGateway == 502
\* MaxResponseSizeMB * 1024 * 1024
BytesPerMB == 1024 * 1024
\* seconds the model clock advances per step
TickSeconds == DefaultTTL \div 2

NoValue == "none"

\* an optional value: absent, or present with value v
Nil == <<>>
Some(v) == <<v>>

(***************************************************************************)
(* Plugin references and the plugin files found on disk.                   *)
(***************************************************************************)
PluginA == [Path |-> <<"a", ".so">>, Name |-> <<"A", "Plugin">>]
PluginB == [Path |-> <<"b", ".so">>, Name |-> <<"B", "Plugin">>]
PluginX == [Path |-> <<"x", ".so">>, Name |-> <<"X", "Plugin">>]
PluginBad == [Path |-> <<"bad", ".so">>, Name |-> <<"Bad", "Plugin">>]
PluginNoSym == [Path |-> <<"a", ".so">>, Name |-> <<"Missing", "Plugin">>]
PluginH == [Path |-> <<"h", ".so">>, Name |-> <<"H", "Plugin">>]
PluginN == [Path |-> <<"n", ".so">>, Name |-> <<"N", "Plugin">>]
PluginLink == [Path |-> <<"link", ".so">>, Name |-> <<"Link", "Plugin">>]
PluginWritable == [Path |-> <<"writable", ".so">>, Name |-> <<"Writable", "Plugin">>]
PluginOutside == [Path |-> <<"/tmp/outside", ".so">>, Name |-> <<"Outside", "Plugin">>]

PluginValue == [Path |-> <<"v", ".so">>, Name |-> <<"V", "Plugin">>]
PluginFactory == [Path |-> <<"f", ".so">>, Name |-> <<"Get", "Plugin">>]
PluginScalar == [Path |-> <<"s", ".so">>, Name |-> <<"S", "Plugin">>]
\* the file e.so in a directory named d.so, and the directory d.so itself with
\* a name that continues the path
PluginNested == [Path |-> <<"d", ".so", "/", "e", ".so">>, Name |-> <<"X", "Plugin">>]
PluginSplit == [Path |-> <<"d", ".so">>, Name |-> <<"e", ".so", "/", "X", "Plugin">>]

PluginConfigs == {PluginA, PluginB, PluginX, PluginBad, PluginNoSym, PluginH, PluginN,
                  PluginLink, PluginWritable, PluginOutside, PluginValue, PluginFactory,
                  PluginScalar}

\* what the file system holds at a reference's path: whether the file exists,
\* is a symbolic link, is world-writable, lies in an allowed plugin directory
FileStat(pc) ==
    CASE pc = PluginBad ->
            [exists |-> FALSE, symlink |-> FALSE, worldWritable |-> FALSE, allowed |-> TRUE]
      [] pc = PluginLink ->
            [exists |-> TRUE, symlink |-> TRUE, worldWritable |-> FALSE, allowed |-> TRUE]
      [] pc = PluginWritable ->
            [exists |-> TRUE, symlink |-> FALSE, worldWritable |-> TRUE, allowed |-> TRUE]
      [] pc = PluginOutside ->
            [exists |-> TRUE, symlink |-> FALSE, worldWritable |-> FALSE, allowed |-> FALSE]
      [] OTHER ->
            [exists |-> TRUE, symlink |-> FALSE, worldWritable |-> FALSE, allowed |-> TRUE]

\* what plugin.Open / Lookup / reflection find for a reference. The symbol is
\* a variable holding a value with the methods ("value"), a variable holding
\* a pointer to such a value ("pointer"), a function without arguments that
\* returns such a value ("factory"), or a variable of another type ("scalar");
\* html and xml tell which methods the plugin's value has
PluginFile(pc) ==
    CASE pc = PluginValue ->
            [opens |-> TRUE, symbol |-> TRUE, html |-> TRUE,
             xml |-> TRUE, shape |-> "value"]
      [] pc = PluginFactory ->
            [opens |-> TRUE, symbol |-> TRUE, html |-> TRUE,
             xml |-> TRUE, shape |-> "factory"]
      [] pc = PluginScalar ->
            [opens |-> TRUE, symbol |-> TRUE, html |-> FALSE,
             xml |-> FALSE, shape |-> "scalar"]
      [] pc = PluginA ->
            [opens |-> TRUE, symbol |-> TRUE, html |-> TRUE,
             xml |-> TRUE, shape |-> "pointer"]
      [] pc = PluginB ->
            [opens |-> TRUE, symbol |-> TRUE, html |-> TRUE,
             xml |-> TRUE, shape |-> "pointer"]
      [] pc = PluginX ->
            [opens |-> TRUE, symbol |-> TRUE, html |-> FALSE,
             xml |-> TRUE, shape |-> "pointer"]
      [] pc = PluginH ->
            [opens |-> TRUE, symbol |-> TRUE, html |-> TRUE,
             xml |-> FALSE, shape |-> "pointer"]
      [] pc = PluginN ->
            [opens |-> TRUE, symbol |-> TRUE, html |-> FALSE,
             xml |-> FALSE, shape |-> "pointer"]
      [] pc \in {PluginLink, PluginWritable, PluginOutside, PluginNested} ->
            [opens |-> TRUE, symbol |-> TRUE, html |-> TRUE,
             xml |-> TRUE, shape |-> "pointer"]
      [] pc \in {PluginBad, PluginSplit} ->
            [opens |-> FALSE, symbol |-> FALSE, html |-> FALSE,
             xml |-> FALSE, shape |-> "pointer"]
      [] OTHER ->
            [opens |-> TRUE, symbol |-> FALSE, html |-> FALSE,
             xml |-> FALSE, shape |-> "pointer"]

(***************************************************************************)
(* Configurations handed to New and UpdateConfig.                          *)
(***************************************************************************)
Rule(mt, ps) == [MimeType |-> mt, Plugins |-> ps]

Cfg(b, r, rules, deny, mb) ==
    [BackendURL |-> b, Redis |-> r, MimeTypes |-> rules,
     CookieDenylist |-> deny, MaxResponseSizeMB |-> mb]

RedisA == [Addr |-> "redis-a:6379", Password |-> "", DB |-> 0]
RedisB == [Addr |-> "redis-b:6379", Password |-> "", DB |-> 0]
RedisDown == [Addr |-> "down:6379", Password |-> "", DB |-> 0]

ConfigBase ==
    Cfg("http://one", RedisA, <<Rule("text/html", <<PluginA>>)>>,
        <<"auth", "session">>, 1)
ConfigTwoRules ==
    Cfg("http://two", RedisA,
        <<Rule("text/html", <<PluginA, PluginB>>), Rule("application/xml", <<PluginB>>)>>,
        <<>>, 1)
ConfigOtherRedis ==
    Cfg("http://two", RedisB, <<Rule("application/xml", <<PluginB>>)>>, <<"session">>, 1)
ConfigBadPlugin ==
    Cfg("http://three", RedisB,
        <<Rule("text/html", <<PluginB, PluginBad>>)>>, <<>>, 1)
ConfigBadURL ==
    Cfg("http://%zz", RedisB, <<Rule("text/html", <<PluginA>>)>>, <<>>, 1)
ConfigRedisDown ==
    Cfg("http://three", RedisDown, <<Rule("text/html", <<PluginB>>)>>, <<>>, 1)

Configs == {ConfigBase, ConfigTwoRules, ConfigOtherRedis, ConfigBadPlugin,
            ConfigBadURL, ConfigRedisDown}

RedisConfigs == {RedisA, RedisB, RedisDown}

\* url.Parse(cfg.BackendURL): an invalid percent-escape in the host is an error
urlParse(b) == IF b = "http://%zz" THEN [err |-> TRUE, target |-> NoValue]
               ELSE [err |-> FALSE, target |-> b]

\* cache.New(cfg.Redis): fails when the store cannot be reached
cacheNew(r, gen) == IF r = RedisDown THEN [err |-> TRUE, client |-> NoValue]
                    ELSE [err |-> FALSE, client |-> [Redis |-> r, gen |-> gen]]

(***************************************************************************)
(* internal/config accessors.                                              *)
(***************************************************************************)
RECURSIVE FirstRule(_, _, _)
FirstRule(rules, mimeType, i) ==
    IF i > Len(rules) THEN 0
    ELSE IF rules[i].MimeType = mimeType THEN i
    ELSE FirstRule(rules, mimeType, i + 1)

IsHTMLXMLMimeType_Always(c, mimeType) == TRUE

IsHTMLXMLMimeType(c, mimeType) == FirstRule(c.MimeTypes, mimeType, 1) # 0

GetPluginsForMimeType(c, mimeType) ==
    LET i == FirstRule(c.MimeTypes, mimeType, 1)
    IN IF i = 0 THEN <<>> ELSE c.MimeTypes[i].Plugins

(***************************************************************************)
(* internal/plugins: the registry and the loader.                          *)
(***************************************************************************)
\* key := pluginConfig.Path + "/" + pluginConfig.Name
PluginKey(path, name) == path \o <<"/">> \o name

\* the plugin references of a configuration in the order LoadPlugins visits them
RECURSIVE PluginRefsFrom(_, _)
PluginRefsFrom(rules, i) ==
    IF i > Len(rules) THEN <<>>
    ELSE [j \in 1..Len(rules[i].Plugins) |->
             [pc |-> rules[i].Plugins[j], MimeType |-> rules[i].MimeType]]
         \o PluginRefsFrom(rules, i + 1)

PluginRefs(cfg) == PluginRefsFrom(cfg.MimeTypes, 1)

\* the error a load returns: its message and the names the message quotes
LoadError(message, names) == [message |-> message, names |-> names]

\* validateAndWrapPlugin: the symbol asserts to Plugin, or is a pointer (to a
\* pointer) to a struct on which both methods exist
validateAndWrapPlugin_XMLOnly(file) ==
    /\ file.shape \in {"value", "pointer"}
    /\ file.xml

validateAndWrapPlugin(file) ==
    /\ file.shape \in {"value", "pointer"}
    /\ file.html
    /\ file.xml

\* validatePlugin(p, mimeType): logs and accepts
validatePlugin(file, mimeType) == TRUE

\* loadPlugin(path, name, mimeType): plugin.Open, Lookup, validateAndWrapPlugin,
\* validatePlugin; the result is an error or a new LoadedPlugin, whose plugin
\* field is the wrapped instance with the methods it has
loadPlugin(pc, mimeType, gen) ==
    LET file == PluginFile(pc)
    IN IF ~file.opens
       THEN [err |-> TRUE, plugin |-> NoValue,
             error |-> LoadError("failed to open plugin file", {})]
       ELSE IF ~file.symbol
       THEN [err |-> TRUE, plugin |-> NoValue,
             error |-> LoadError("failed to find symbol", {pc.Name})]
       ELSE IF ~validateAndWrapPlugin(file)
       THEN [err |-> TRUE, plugin |-> NoValue,
             error |-> LoadError("does not implement required methods", {pc.Name})]
       ELSE IF ~validatePlugin(file, mimeType)
       THEN [err |-> TRUE, plugin |-> NoValue,
             error |-> LoadError("plugin validation failed", {})]
       ELSE [err |-> FALSE, error |-> LoadError("", {}),
             plugin |-> [plugin |-> [html |-> file.html, xml |-> file.xml],
                         path |-> pc.Path, name |-> pc.Name, gen |-> gen]]

\* m.plugins[key], nil when absent
Lookup(registry, key) == IF key \in DOMAIN registry THEN registry[key] ELSE NoValue

\* the map m with m[key] = value added
MapPut(m, key, value) ==
    [k \in DOMAIN m \cup {key} |-> IF k = key THEN value ELSE m[k]]

EmptyMap == [k \in {} |-> NoValue]

\* the registry LoadPlugins builds for a configuration that loads completely
RECURSIVE BuildPlugins(_, _, _, _, _)
BuildPlugins(refs, i, old, acc, gen) ==
    IF i > Len(refs) THEN [err |-> FALSE, plugins |-> acc]
    ELSE LET key == PluginKey(refs[i].pc.Path, refs[i].pc.Name)
         IN IF key \in DOMAIN old
            THEN BuildPlugins(refs, i + 1, old, MapPut(acc, key, old[key]), gen)
            ELSE LET l == loadPlugin(refs[i].pc, refs[i].MimeType, gen)
                 IN IF l.err THEN [err |-> TRUE, plugins |-> acc]
                    ELSE BuildPlugins(refs, i + 1, old, MapPut(acc, key, l.plugin), gen)

(***************************************************************************)
(* Requests and upstream responses.                                        *)
(***************************************************************************)
\* a Content-Type header value, split at its separators
ContentTypeHTML == <<"text/html">>
ContentTypeHTMLCharset == <<"text/html", ";", "charset=utf-8">>
ContentTypeXML == <<"application/xml">>
ContentTypeJSON == <<"application/json">>

\* strings.Index(contentType, ";"): position of the first separator, 0 if none
RECURSIVE IndexSemicolon(_, _)
IndexSemicolon(contentType, i) ==
    IF i > Len(contentType) THEN 0
    ELSE IF contentType[i] = ";" THEN i
    ELSE IndexSemicolon(contentType, i + 1)

\* extractMimeType: the part before the first ";", "" for an empty header
extractMimeType(contentType) ==
    LET idx == IndexSemicolon(contentType, 1)
        head == IF idx # 0 THEN SubSeq(contentType, 1, idx - 1) ELSE contentType
    IN IF Len(head) = 0 THEN "" ELSE head[1]

isHTMLMimeType(mimeType) ==
    mimeType = "text/html" \/ mimeType = "application/xhtml+xml"

\* a Cache-Control header value as its list of directives
Directive(n, v) == [name |-> n, value |-> v]
CacheControlNone == <<>>
CacheControlNoStore == <<Directive("no-store", Nil)>>
CacheControlNoCache == <<Directive("no-cache", Nil)>>
CacheControlPrivate == <<Directive("private", Nil)>>
CacheControlPublic == <<Directive("public", Nil)>>
CacheControlMaxAge == <<Directive("public", Nil), Directive("max-age", Some(TickSeconds))>>
CacheControlPrivateMaxAge ==
    <<Directive("max-age", Some(TickSeconds)), Directive("private", Nil)>>

\* the upstream body is a prefix of one byte stream: it is known by its length;
\* applied lists the plugins that transformed it
Body(n, applied) == [len |-> n, applied |-> applied]

\* the first n bytes of a body (io.LimitReader)
LimitRead(body, n) == IF body.len > n THEN [body EXCEPT !.len = n] ELSE body

\* resp.ContentLength for a body of n bytes: -1 when the header is absent,
\* the declared value otherwise
ContentLengthOf(kind, n) ==
    CASE kind = "absent" -> -1
      [] kind = "accurate" -> n
      [] OTHER -> 1

(***************************************************************************)
(* internal/cache: key, cacheability, TTL, Get and Set.                    *)
(***************************************************************************)
\* generateKey(req): path, query and the Vary-relevant request header values
generateKey_PathOnly(req) == <<req.Path>>

generateKey(req) == <<req.Path, req.RawQuery, req.Vary>>

\* parseMaxAge(cacheControl): the value of the max-age directive, nil if none
RECURSIVE parseMaxAgeFrom(_, _)
parseMaxAgeFrom(cacheControl, i) ==
    IF i > Len(cacheControl) THEN Nil
    ELSE IF cacheControl[i].name = "max-age" THEN cacheControl[i].value
    ELSE parseMaxAgeFrom(cacheControl, i + 1)

parseMaxAge(cacheControl) == parseMaxAgeFrom(cacheControl, 1)

HasDirective(cacheControl, n) ==
    \E i \in 1..Len(cacheControl) : cacheControl[i].name = n

\* Cache.IsCacheable(resp)
IsCacheable(resp, req) ==
    /\ req.Method = "GET"
    /\ resp.StatusCode = StatusOK
    /\ resp.SetCookie = "absent"
    /\ ~HasDirective(resp.CacheControl, "no-store")
    /\ ~HasDirective(resp.CacheControl, "no-cache")
    /\ ~HasDirective(resp.CacheControl, "private")

\* calculateTTL(entry), in seconds
calculateTTL_ExpiresFirst(entry) ==
    IF entry.Expires # Nil THEN entry.Expires[1] - entry.Timestamp
    ELSE IF entry.MaxAge # Nil THEN entry.MaxAge[1]
    ELSE DefaultTTL

calculateTTL(entry) ==
    IF entry.MaxAge # Nil THEN entry.MaxAge[1]
    ELSE IF entry.Expires # Nil THEN entry.Expires[1] - entry.Timestamp
    ELSE DefaultTTL

\* isExpired(entry) at time t
isExpired(entry, t) == t - entry.Timestamp > calculateTTL(entry)

\* Cache.Get(req, cfg) on the contents of the store the client talks to:
\* a miss for an absent key, an expired entry or a failed read
CacheGet(contents, req, t, readOK) ==
    LET key == generateKey(req)
    IN IF ~readOK THEN [hit |-> FALSE, entry |-> NoValue]
       ELSE IF key \notin DOMAIN contents THEN [hit |-> FALSE, entry |-> NoValue]
       ELSE IF isExpired(contents[key], t) THEN [hit |-> FALSE, entry |-> NoValue]
       ELSE [hit |-> TRUE, entry |-> contents[key]]

\* Cache.Set(req, entry, cfg): the entry is stored under the request's key with
\* max-age and Expires taken from the captured headers; a failed write stores
\* nothing
CacheSet(contents, req, entry, writeOK) ==
    IF ~writeOK THEN contents
    ELSE MapPut(contents, generateKey(req),
                [entry EXCEPT !.MaxAge = parseMaxAge(entry.Headers.CacheControl),
                              !.Expires = entry.Headers.Expires])

(***************************************************************************)
(* internal/proxy: the document pipeline and the response handler.         *)
(***************************************************************************)
\* what goes wrong while a response is processed: nothing, the body read,
\* the parse, the call of the at-th plugin of the list, or the render
Failure(stage, at) == [stage |-> stage, at |-> at]
NoFailure == Failure("none", 0)

Result(err, body) == [err |-> err, body |-> body]
NoBody == Body(0, <<>>)

\* processor(plugin, ctx, requestURL, document): the plugin called, the
\* request whose context and URL it is given, and the tree it is handed, as
\* the plugins called before it left it
Call(plugin, req, tree) == [plugin |-> plugin, req |-> req, tree |-> tree]

\* fmt.Errorf("plugin not found: %s/%s", ...) and fmt.Errorf("plugin %s failed", ...)
PluginError(kind, id) == [kind |-> kind, id |-> id]
NoError == PluginError("none", <<>>)

\* the plugin loop of processWithPlugins from position i: an error when a
\* plugin is not in the registry or its call fails, else the keys applied
RECURSIVE RunPlugins(_, _, _, _, _, _, _)
RunPlugins(pluginConfigs, i, registry, req, fail, applied, calls) ==
    IF i > Len(pluginConfigs)
    THEN [err |-> FALSE, applied |-> applied, at |-> 0, calls |-> calls,
          error |-> NoError]
    ELSE LET key == PluginKey(pluginConfigs[i].Path, pluginConfigs[i].Name)
             plugin == Lookup(registry, key)
             called == Append(calls, Call(plugin, req, applied))
         IN IF key \notin DOMAIN registry
            THEN [err |-> TRUE, applied |-> applied, at |-> i, calls |-> calls,
                  error |-> PluginError("plugin not found", key)]
            ELSE IF fail.stage = "plugin" /\ fail.at = i
            THEN [err |-> TRUE, applied |-> applied, at |-> i, calls |-> called,
                  error |-> PluginError("plugin failed", pluginConfigs[i].Name)]
            ELSE RunPlugins(pluginConfigs, i + 1, registry, req, fail,
                            Append(applied, key), called)

\* for _, pluginConfig := range pluginConfigs { ... }
InvokePlugins_SkipsFirst(pluginConfigs, registry, req, fail) ==
    RunPlugins(pluginConfigs, 2, registry, req, fail, <<>>, <<>>)

InvokePlugins(pluginConfigs, registry, req, fail) ==
    RunPlugins(pluginConfigs, 1, registry, req, fail, <<>>, <<>>)

\* processWithPlugins(body, req, pluginConfigs, parser, processor, renderer)
processWithPlugins(body, req, pluginConfigs, registry, fail) ==
    IF fail.stage = "parse" THEN Result(TRUE, NoBody)
    ELSE LET run == InvokePlugins(pluginConfigs, registry, req, fail)
         IN IF run.err THEN Result(TRUE, NoBody)
            ELSE IF fail.stage = "render" THEN Result(TRUE, NoBody)
            ELSE Result(FALSE, Body(body.len + Len(run.applied), run.applied))

\* maxSize := int64(p.config.MaxResponseSizeMB * 1024 * 1024)
MaxSize(cfg) == cfg.MaxResponseSizeMB * BytesPerMB

\* processResponse(resp, mimeType)
processResponse(resp, req, mimeType, cfg, registry) ==
    LET maxSize == MaxSize(cfg)
        upstream == Body(resp.Len, <<>>)
        body == LimitRead(upstream, maxSize + 1)
        pluginConfigs == GetPluginsForMimeType(cfg, mimeType)
    IN IF resp.ContentLength > 0 /\ resp.ContentLength > maxSize
       THEN IF resp.fail.stage = "read" THEN Result(TRUE, NoBody)
            ELSE Result(FALSE, upstream)
       ELSE IF resp.fail.stage = "read" THEN Result(TRUE, NoBody)
       ELSE IF body.len > maxSize THEN Result(FALSE, body)
       ELSE IF Len(pluginConfigs) = 0 THEN Result(FALSE, body)
       ELSE processWithPlugins(body, req, pluginConfigs, registry, resp.fail)

\* hasDenylistedCookies(req)
hasDenylistedCookies_FirstNameOnly(req, cfg) ==
    Len(cfg.CookieDenylist) > 0 /\ cfg.CookieDenylist[1] \in req.Cookies

hasDenylistedCookies(req, cfg) ==
    \E i \in 1..Len(cfg.CookieDenylist) : cfg.CookieDenylist[i] \in req.Cookies

\* resp.Header.Get("Set-Cookie"): the first value of the header, "" if absent
HeaderGetSetCookie(resp) ==
    IF resp.SetCookie = "absent" \/ resp.SetCookie = "empty" THEN "" ELSE resp.SetCookie

\* shouldCache(resp)
shouldCache_SkipsDenylist(resp, req, cfg) ==
    IF HeaderGetSetCookie(resp) # "" THEN FALSE
    ELSE IsCacheable(resp, req)

shouldCache(resp, req, cfg) ==
    IF HeaderGetSetCookie(resp) # "" THEN FALSE
    ELSE IF hasDenylistedCookies(req, cfg) THEN FALSE
    ELSE IsCacheable(resp, req)

\* the condition under which modifyResponse writes the response to the cache:
\* resp.Request.Method == http.MethodGet && p.shouldCache(resp)
CacheDecision(resp, req, cfg) == req.Method = "GET" /\ shouldCache(resp, req, cfg)

\* the cache.Entry built by processAndCacheResponse at time t; Origin is not
\* a field of the program: it remembers the exchange the entry was written for
NewEntry(resp, req, cfg, body, t) ==
    [Body |-> body,
     Headers |-> [CacheControl |-> resp.CacheControl, Expires |-> resp.Expires,
                  ContentLength |-> resp.ContentLength, XCache |-> Some("MISS")],
     StatusCode |-> resp.StatusCode, Timestamp |-> t, MaxAge |-> Nil, Expires |-> Nil,
     Origin |-> [req |-> req, ContentType |-> resp.ContentType,
                 SetCookie |-> resp.SetCookie, Len |-> resp.Len, cfg |-> cfg]]

\* processAndCacheResponse(resp, mimeType): the processed body, and the store
\* contents after the Cache.Set it performs
processAndCacheResponse_FailsOnSetError(resp, req, mimeType, cfg, registry, contents, t, writeOK) ==
    LET r == processResponse(resp, req, mimeType, cfg, registry)
    IN IF r.err \/ ~writeOK
       THEN [err |-> TRUE, body |-> NoBody, contents |-> contents, set |-> FALSE]
       ELSE [err |-> FALSE, body |-> r.body, set |-> TRUE,
             contents |-> CacheSet(contents, req, NewEntry(resp, req, cfg, r.body, t), writeOK)]

processAndCacheResponse(resp, req, mimeType, cfg, registry, contents, t, writeOK) ==
    LET r == processResponse(resp, req, mimeType, cfg, registry)
    IN IF r.err THEN [err |-> TRUE, body |-> NoBody, contents |-> contents, set |-> FALSE]
       ELSE [err |-> FALSE, body |-> r.body, set |-> TRUE,
             contents |-> CacheSet(contents, req, NewEntry(resp, req, cfg, r.body, t), writeOK)]

\* what the client receives
Delivered(source, status, body, xversion, xcache, clen) ==
    [source |-> source, StatusCode |-> status, Body |-> body,
     XVersion |-> xversion, XCache |-> xcache, ContentLength |-> clen]

\* httputil.ReverseProxy when ModifyResponse returns an error: the default
\* error handler answers 502 with no body
ErrorHandler == Delivered("proxy", StatusBadGateway, NoBody, FALSE, Nil, 0)

\* the early returns of modifyResponse: a mime type that is not configured,
\* or a status other than 200
PassesThrough_MimeOnly(resp, cfg) ==
    ~IsHTMLXMLMimeType(cfg, extractMimeType(resp.ContentType))

PassesThrough(resp, cfg) ==
    \/ ~IsHTMLXMLMimeType(cfg, extractMimeType(resp.ContentType))
    \/ resp.StatusCode # StatusOK

\* modifyResponse(resp): what is sent to the client, the store contents
\* afterwards, and whether Cache.Set was called
modifyResponse(resp, req, cfg, registry, contents, t, writeOK) ==
    LET mimeType == extractMimeType(resp.ContentType)
        upstream == Body(resp.Len, <<>>)
        pass(xcache) == Delivered("backend", resp.StatusCode, upstream, TRUE, xcache,
                                  resp.ContentLength)
        cached == processAndCacheResponse(resp, req, mimeType, cfg, registry,
                                          contents, t, writeOK)
        plain == processResponse(resp, req, mimeType, cfg, registry)
    IN IF PassesThrough(resp, cfg)
       THEN [out |-> pass(resp.XCache), contents |-> contents, set |-> FALSE]
       ELSE IF CacheDecision(resp, req, cfg)
       THEN IF cached.err
            THEN [out |-> ErrorHandler, contents |-> contents, set |-> FALSE]
            ELSE [out |-> Delivered("backend", resp.StatusCode, cached.body, TRUE,
                                    Some("MISS"), cached.body.len),
                  contents |-> cached.contents, set |-> TRUE]
       ELSE IF plain.err
            THEN [out |-> ErrorHandler, contents |-> contents, set |-> FALSE]
            ELSE [out |-> Delivered("backend", resp.StatusCode, plain.body, TRUE,
                                    Some("MISS"), plain.body.len),
                  contents |-> contents, set |-> FALSE]

\* w.WriteHeader(status) followed by w.Write(body) on the http.ResponseWriter:
\* when the headers declare a Content-Length, a body longer than declared is
\* refused with http.ErrContentLength and none of it is sent
ResponseWrite(body, clen) ==
    IF clen >= 0 /\ body.len > clen THEN NoBody ELSE body

\* serveCachedResponse(w, entry): the stored headers are replayed, the
\* Content-Length the backend sent among them, then the stored body is written
serveCachedResponse(entry) ==
    Delivered("cache", entry.StatusCode,
              ResponseWrite(entry.Body, entry.Headers.ContentLength), TRUE,
              Some("HIT"), entry.Headers.ContentLength)

(***************************************************************************)
(* State.                                                                  *)
(***************************************************************************)
VARIABLES
    config,        \* Proxy.config
    reverseProxy,  \* Proxy.reverseProxy: the backend target it forwards to
    cache,         \* Proxy.cache: the cache client in use
    plugins,       \* Manager.plugins: key -> LoadedPlugin
    mu,            \* Proxy.mu
    pluginsMu,     \* Manager.mu
    upd,           \* the goroutine running UpdateConfig
    reloads,       \* number of UpdateConfig calls made so far
    store,         \* the Redis servers: settings -> (key -> stored entry)
    now,           \* the clock, in seconds
    srv,           \* the goroutine running ServeHTTP
    ev,            \* the exchange completed by the last step, if any
    probe,         \* a call of a pure function: its arguments and its result
    calls,         \* goroutines calling UpdateConfig side by side
    main,          \* the goroutine running main
    configFile,    \* the contents of the configuration file
    sigChan,       \* main's signal channel
    signals,       \* number of reload signals sent so far
    ready,         \* health.Server.ready
    hreq           \* the goroutines running healthHandler

\* the state outside the Proxy value
processVars == <<calls, main, configFile, sigChan, signals, ready, hreq>>

vars == <<config, reverseProxy, cache, plugins, mu, pluginsMu, upd, reloads,
          store, now, srv, ev, probe, processVars>>

Unlocked == [writer |-> FALSE, pending |-> FALSE, readers |-> 0]

UpdIdle(result, before) ==
    [pc |-> "idle", cfg |-> NoValue, target |-> NoValue, result |-> result,
     before |-> before]

Snapshot == [config |-> config, reverseProxy |-> reverseProxy,
             cache |-> cache, plugins |-> plugins]

Req(m, path, query, vary, cookies) ==
    [Method |-> m, Path |-> path, RawQuery |-> query, Vary |-> vary, Cookies |-> cookies]

Resp(ct, status, sc, cc, exp, n, clKind, fail) ==
    [ContentType |-> ct, StatusCode |-> status, SetCookie |-> sc, CacheControl |-> cc,
     Expires |-> exp, Len |-> n, ContentLength |-> ContentLengthOf(clKind, n),
     XCache |-> Nil, fail |-> fail]

NoReq == Req("", "", "", "", {})
SrvIdle == [pc |-> "idle", req |-> NoReq]
NoEvent == [kind |-> "none"]
NoProbe == [fn |-> "none"]

\* New(cfg, version): the configurations for which construction succeeds
NewResult(cfg) ==
    LET t == urlParse(cfg.BackendURL)
        c == cacheNew(cfg.Redis, 0)
        l == BuildPlugins(PluginRefs(cfg), 1, EmptyMap, EmptyMap, 0)
    IN [err |-> t.err \/ c.err \/ l.err, target |-> t.target,
        client |-> c.client, plugins |-> l.plugins]

\* a goroutine that has not called UpdateConfig
NoCall == [pc |-> "idle", cfg |-> NoValue, target |-> NoValue, result |-> "none",
           seq |-> 0, before |-> NoValue]

\* the goroutines that call UpdateConfig side by side
Callers == {1, 2}

\* the configuration file: whether it can be read, whether it is JSON, and
\* the Config value json.Unmarshal makes of it
File(readable, json, cfg) == [readable |-> readable, json |-> json, config |-> cfg]

\* the goroutines that send requests to the health server
HealthClients == {1, 2}
NoHealthRequest == [pc |-> "idle", Method |-> "", out |-> NoValue]

\* main waiting for a signal once the servers are started
MainWaiting == [pc |-> "wait", newCfg |-> NoValue]

\* the process around a proxy that serves: main waits for signals, the health
\* server reports ready
ProcessServing ==
    /\ calls = [i \in Callers |-> NoCall]
    /\ main = MainWaiting
    /\ configFile = File(TRUE, TRUE, config)
    /\ sigChan = <<>>
    /\ signals = 0
    /\ ready = 1
    /\ hreq = [i \in HealthClients |-> NoHealthRequest]

\* the proxy as New leaves it
ProxyInit ==
    \E cfg \in Configs :
        /\ ~NewResult(cfg).err
        /\ config = cfg
        /\ reverseProxy = NewResult(cfg).target
        /\ cache = NewResult(cfg).client
        /\ plugins = NewResult(cfg).plugins
        /\ mu = Unlocked
        /\ pluginsMu = Unlocked
        /\ upd = UpdIdle("none", Snapshot)
        /\ reloads = 0
        /\ store = [r \in {RedisA, RedisB} |-> EmptyMap]
        /\ now = 0
        /\ srv = SrvIdle
        /\ ev = NoEvent
        /\ ProcessServing

Init == ProxyInit /\ probe = NoProbe

(***************************************************************************)
(* Manager.LoadPlugins: the candidate map is installed only when every     *)
(* reference loaded; on an error m.plugins is left as it was.              *)
(***************************************************************************)
LoadPlugins_InstallsPartial(cfg, old, gen) ==
    LET b == BuildPlugins(PluginRefs(cfg), 1, old, EmptyMap, gen)
    IN [err |-> b.err, plugins |-> b.plugins]

LoadPlugins_ReopensAll(cfg, old, gen) ==
    LET b == BuildPlugins(PluginRefs(cfg), 1, EmptyMap, EmptyMap, gen)
    IN IF b.err THEN [err |-> TRUE, plugins |-> old]
       ELSE [err |-> FALSE, plugins |-> b.plugins]

LoadPlugins_DropsExisting(cfg, old, gen) ==
    LET b == BuildPlugins(PluginRefs(cfg), 1, old, EmptyMap, gen)
    IN IF b.err THEN [err |-> TRUE, plugins |-> old]
       ELSE [err |-> FALSE,
             plugins |-> [k \in DOMAIN b.plugins \ DOMAIN old |-> b.plugins[k]]]

LoadPlugins_KeepsUnreferenced(cfg, old, gen) ==
    LET b == BuildPlugins(PluginRefs(cfg), 1, old, old, gen)
    IN IF b.err THEN [err |-> TRUE, plugins |-> old]
       ELSE [err |-> FALSE, plugins |-> b.plugins]

LoadPlugins(cfg, old, gen) ==
    LET b == BuildPlugins(PluginRefs(cfg), 1, old, EmptyMap, gen)
    IN IF b.err THEN [err |-> TRUE, plugins |-> old]
       ELSE [err |-> FALSE, plugins |-> b.plugins]

(***************************************************************************)
(* Proxy.UpdateConfig, one goroutine (the signal loop of main).            *)
(***************************************************************************)
\* the call: p.mu.Lock() is requested
UpdateConfigCall(cfg) ==
    /\ upd.pc = "idle"
    /\ reloads < MaxReloads
    /\ reloads' = reloads + 1
    /\ upd' = [UpdIdle("none", Snapshot) EXCEPT !.pc = "lock", !.cfg = cfg]
    /\ mu' = [mu EXCEPT !.pending = TRUE]
    /\ ev' = NoEvent
    /\ UNCHANGED <<processVars, probe, config, reverseProxy, cache, plugins, pluginsMu, store, now, srv>>

UpdateConfigLock_IgnoresReaders ==
    /\ upd.pc = "lock"
    /\ mu' = [mu EXCEPT !.writer = TRUE, !.pending = FALSE]
    /\ upd' = [upd EXCEPT !.pc = "prepare"]
    /\ ev' = NoEvent
    /\ UNCHANGED <<processVars, probe, config, reverseProxy, cache, plugins, pluginsMu, reloads,
                   store, now, srv>>

\* p.mu.Lock() returns once no reader holds the lock
UpdateConfigLock ==
    /\ upd.pc = "lock"
    /\ mu.readers = 0
    /\ mu' = [writer |-> TRUE, pending |-> FALSE, readers |-> 0]
    /\ upd' = [upd EXCEPT !.pc = "prepare"]
    /\ ev' = NoEvent
    /\ UNCHANGED <<processVars, probe, config, reverseProxy, cache, plugins, pluginsMu, reloads,
                   store, now, srv>>

UpdateConfigPrepare_AlwaysNewClient ==
    /\ upd.pc = "prepare"
    /\ LET t == urlParse(upd.cfg.BackendURL)
           c == cacheNew(upd.cfg.Redis, reloads)
       IN IF t.err
          THEN /\ upd' = UpdIdle("invalid backend URL", upd.before)
               /\ mu' = Unlocked
               /\ UNCHANGED cache
          ELSE IF c.err
               THEN /\ upd' = UpdIdle("failed to create new cache client", upd.before)
                    /\ mu' = Unlocked
                    /\ UNCHANGED cache
               ELSE /\ cache' = c.client
                    /\ upd' = [upd EXCEPT !.pc = "plugins", !.target = t.target]
                    /\ UNCHANGED mu
    /\ ev' = NoEvent
    /\ UNCHANGED <<processVars, probe, config, reverseProxy, plugins, pluginsMu, reloads, store, now, srv>>

\* url.Parse, then the cache client is replaced when the Redis settings differ
UpdateConfigPrepare ==
    /\ upd.pc = "prepare"
    /\ LET t == urlParse(upd.cfg.BackendURL)
           c == cacheNew(upd.cfg.Redis, reloads)
       IN IF t.err
          THEN /\ upd' = UpdIdle("invalid backend URL", upd.before)
               /\ mu' = Unlocked
               /\ UNCHANGED cache
          ELSE IF config.Redis # upd.cfg.Redis
          THEN IF c.err
               THEN /\ upd' = UpdIdle("failed to create new cache client", upd.before)
                    /\ mu' = Unlocked
                    /\ UNCHANGED cache
               ELSE /\ cache' = c.client
                    /\ upd' = [upd EXCEPT !.pc = "plugins", !.target = t.target]
                    /\ UNCHANGED mu
          ELSE /\ upd' = [upd EXCEPT !.pc = "plugins", !.target = t.target]
               /\ UNCHANGED <<mu, cache>>
    /\ ev' = NoEvent
    /\ UNCHANGED <<processVars, probe, config, reverseProxy, plugins, pluginsMu, reloads, store, now, srv>>

\* p.plugins.LoadPlugins(cfg) takes m.mu.Lock()
LoadPluginsLock ==
    /\ upd.pc = "plugins"
    /\ pluginsMu.readers = 0
    /\ pluginsMu' = [writer |-> TRUE, pending |-> FALSE, readers |-> 0]
    /\ upd' = [upd EXCEPT !.pc = "loading"]
    /\ ev' = NoEvent
    /\ UNCHANGED <<processVars, probe, config, reverseProxy, cache, plugins, mu, reloads, store, now, srv>>

\* the loop of LoadPlugins fails: both locks are released, UpdateConfig returns
\* the error
LoadPluginsFail ==
    /\ upd.pc = "loading"
    /\ LoadPlugins(upd.cfg, plugins, reloads).err
    /\ plugins' = LoadPlugins(upd.cfg, plugins, reloads).plugins
    /\ pluginsMu' = Unlocked
    /\ mu' = Unlocked
    /\ upd' = UpdIdle("failed to reload plugins", upd.before)
    /\ ev' = NoEvent
    /\ UNCHANGED <<processVars, probe, config, reverseProxy, cache, reloads, store, now, srv>>

\* the loop of LoadPlugins completes: m.plugins = newPlugins, then UpdateConfig
\* installs the configuration and the new reverse proxy and returns nil
LoadPluginsInstall ==
    /\ upd.pc = "loading"
    /\ ~LoadPlugins(upd.cfg, plugins, reloads).err
    /\ plugins' = LoadPlugins(upd.cfg, plugins, reloads).plugins
    /\ pluginsMu' = Unlocked
    /\ config' = upd.cfg
    /\ reverseProxy' = upd.target
    /\ mu' = Unlocked
    /\ upd' = UpdIdle("ok", upd.before)
    /\ ev' = NoEvent
    /\ UNCHANGED <<processVars, probe, cache, reloads, store, now, srv>>

(***************************************************************************)
(* Proxy.ServeHTTP, one goroutine per request.                             *)
(***************************************************************************)
\* a request arrives: p.mu.RLock() is requested
ServeHTTPCall(req) ==
    /\ srv.pc = "idle"
    /\ srv' = [pc |-> "rlock", req |-> req]
    /\ ev' = NoEvent
    /\ UNCHANGED <<processVars, probe, config, reverseProxy, cache, plugins, mu, pluginsMu, upd,
                   reloads, store, now>>

\* p.mu.RLock() is granted when no writer holds or awaits the lock
CanRLock(m) == ~m.writer /\ ~m.pending

ServeHTTPCached_AnyMethod(readOK) ==
    /\ srv.pc = "rlock"
    /\ CanRLock(mu)
    /\ LET got == CacheGet(store[cache.Redis], srv.req, now, readOK)
       IN /\ got.hit
          /\ ev' = [kind |-> "served", req |-> srv.req, resp |-> NoValue,
                    out |-> serveCachedResponse(got.entry), entry |-> got.entry,
                    set |-> FALSE, cfg |-> config, readOK |-> readOK,
                    writeOK |-> TRUE, target |-> NoValue]
    /\ srv' = SrvIdle
    /\ UNCHANGED <<processVars, probe, config, reverseProxy, cache, plugins, mu, pluginsMu, upd,
                   reloads, store, now>>

\* the read lock is taken and the cache is consulted: a GET with a live entry
\* is answered from the cache and the lock released
ServeHTTPCached(readOK) ==
    /\ srv.pc = "rlock"
    /\ CanRLock(mu)
    /\ srv.req.Method = "GET"
    /\ LET got == CacheGet(store[cache.Redis], srv.req, now, readOK)
       IN /\ got.hit
          /\ ev' = [kind |-> "served", req |-> srv.req, resp |-> NoValue,
                    out |-> serveCachedResponse(got.entry), entry |-> got.entry,
                    set |-> FALSE, cfg |-> config, readOK |-> readOK,
                    writeOK |-> TRUE, target |-> NoValue]
    /\ srv' = SrvIdle
    /\ UNCHANGED <<processVars, probe, config, reverseProxy, cache, plugins, mu, pluginsMu, upd,
                   reloads, store, now>>

\* otherwise the request is handed to p.reverseProxy under the read lock
ServeHTTPForward(readOK) ==
    /\ srv.pc = "rlock"
    /\ CanRLock(mu)
    /\ \/ srv.req.Method # "GET"
       \/ ~CacheGet(store[cache.Redis], srv.req, now, readOK).hit
    /\ mu' = [mu EXCEPT !.readers = @ + 1]
    /\ srv' = [srv EXCEPT !.pc = "forwarded"]
    /\ ev' = [kind |-> "lookup", req |-> srv.req, readOK |-> readOK]
    /\ UNCHANGED <<processVars, probe, config, reverseProxy, cache, plugins, pluginsMu, upd,
                   reloads, store, now>>

\* the backend answers; modifyResponse runs, the client is answered and the
\* read lock released
ServeHTTPBackend(resp, writeOK) ==
    /\ srv.pc = "forwarded"
    /\ ~pluginsMu.writer
    /\ LET m == modifyResponse(resp, srv.req, config, plugins,
                               store[cache.Redis], now, writeOK)
       IN /\ store' = [store EXCEPT ![cache.Redis] = m.contents]
          /\ ev' = [kind |-> "served", req |-> srv.req, resp |-> resp,
                    out |-> m.out, entry |-> NoValue, set |-> m.set,
                    cfg |-> config, readOK |-> TRUE, writeOK |-> writeOK,
                    target |-> reverseProxy]
    /\ mu' = [mu EXCEPT !.readers = @ - 1]
    /\ srv' = SrvIdle
    /\ UNCHANGED <<processVars, probe, config, reverseProxy, cache, plugins, pluginsMu, upd, reloads, now>>

\* time passes
Tick ==
    /\ now < MaxTicks * TickSeconds
    /\ now' = now + TickSeconds
    /\ ev' = NoEvent
    /\ UNCHANGED <<processVars, probe, config, reverseProxy, cache, plugins, mu, pluginsMu, upd,
                   reloads, store, srv>>

(***************************************************************************)
(* Inputs.                                                                 *)
(***************************************************************************)
SizeLimit == BytesPerMB
Lens == {1} \cup {SizeLimit + d : d \in 0..MaxOver}
ContentLengthKinds == {"absent", "accurate", "understated"}
Failures == {NoFailure, Failure("read", 0), Failure("parse", 0),
             Failure("plugin", 1), Failure("plugin", 2), Failure("render", 0)}

RequestsBasic ==
    {Req(m, "/a", "", "", c) : m \in {"GET", "POST"}, c \in {{}, {"session"}}}
ResponsesBasic ==
    {Resp(ct, st, "absent", CacheControlNone, Nil, 1, "accurate", NoFailure) :
        ct \in {ContentTypeHTML, ContentTypeJSON}, st \in {StatusOK, 404}}

\* bodies around the size limit, with every kind of Content-Length and failure
RequestsPipeline == {Req(m, "/a", "", "", {}) : m \in {"GET", "POST"}}
ResponsesPipeline ==
    {Resp(ct, StatusOK, "absent", CacheControlNone, Nil, n, k, f) :
        ct \in {ContentTypeHTML, ContentTypeXML, ContentTypeJSON},
        n \in Lens, k \in ContentLengthKinds, f \in Failures}

\* the cacheable response and every response one condition away from it
RequestsCache ==
    {Req("GET", "/a", "x=1", "", {}), Req("GET", "/a", "x=1", "", {"session"}),
     Req("GET", "/a", "", "", {}), Req("POST", "/a", "x=1", "", {})}
ResponseCacheable ==
    Resp(ContentTypeHTML, StatusOK, "absent", CacheControlNone, Nil, 1, "accurate",
         NoFailure)
ResponsesCache ==
    {ResponseCacheable,
     [ResponseCacheable EXCEPT !.ContentType = ContentTypeJSON],
     [ResponseCacheable EXCEPT !.StatusCode = 404],
     [ResponseCacheable EXCEPT !.SetCookie = "session=123"],
     [ResponseCacheable EXCEPT !.SetCookie = "empty"],
     [ResponseCacheable EXCEPT !.CacheControl = CacheControlNoStore],
     [ResponseCacheable EXCEPT !.CacheControl = CacheControlNoCache],
     [ResponseCacheable EXCEPT !.CacheControl = CacheControlPrivate],
     [ResponseCacheable EXCEPT !.CacheControl = CacheControlMaxAge],
     [ResponseCacheable EXCEPT !.ContentLength = ContentLengthOf("absent", 1)],
     [ResponseCacheable EXCEPT !.XCache = Some("STALE")],
     [ResponseCacheable EXCEPT !.XCache = Some("STALE"),
                               !.ContentType = ContentTypeJSON]}

Reload(Cfgs) ==
    \/ \E cfg \in Cfgs : UpdateConfigCall(cfg)
    \/ UpdateConfigLock
    \/ UpdateConfigPrepare
    \/ LoadPluginsLock
    \/ LoadPluginsFail
    \/ LoadPluginsInstall

Serve(Reqs, Resps) ==
    \/ \E req \in Reqs : ServeHTTPCall(req)
    \/ \E readOK \in BOOLEAN : ServeHTTPCached(readOK)
    \/ \E readOK \in BOOLEAN : ServeHTTPForward(readOK)
    \/ \E resp \in Resps, writeOK \in BOOLEAN : ServeHTTPBackend(resp, writeOK)

\* reloads interleaved with requests
Next == Reload(Configs) \/ Serve(RequestsBasic, ResponsesBasic)

Spec == Init /\ [][Next]_vars

\* requests whose responses exercise the size limit and the pipeline
NextPipeline == Serve(RequestsPipeline, ResponsesPipeline)

SpecPipeline == Init /\ [][NextPipeline]_vars

\* requests over time against the cache
NextCache == Serve(RequestsCache, ResponsesCache) \/ Tick

SpecCache == Init /\ [][NextCache]_vars

(***************************************************************************)
(* The cacheability decision and the cache key, applied to drawn inputs.   *)
(***************************************************************************)
Methods == {"GET", "POST", "HEAD"}
StatusCodes == {StatusOK, 304, 404}
SetCookies == {"absent", "empty", "session=123"}
CacheControls == {CacheControlNone, CacheControlNoStore, CacheControlNoCache,
                  CacheControlPrivate, CacheControlPublic, CacheControlMaxAge,
                  CacheControlPrivateMaxAge}
CookieJars == SUBSET {"auth", "session", "theme"}

RequestsCacheable == {Req(m, "/a", "", "", c) : m \in Methods, c \in CookieJars}
ResponsesCacheable ==
    {Resp(ContentTypeHTML, st, sc, cc, Nil, 1, "accurate", NoFailure) :
        st \in StatusCodes, sc \in SetCookies, cc \in CacheControls}

Paths == {"/a", "/b", "/a/b"}
Queries == {"", "x=1", "x=2"}
VaryValues == {"", "gzip"}
RequestsKey == {Req("GET", pa, q, v, {}) : pa \in Paths, q \in Queries, v \in VaryValues}

InitCacheable ==
    /\ ProxyInit
    /\ \E req \in RequestsCacheable, resp \in ResponsesCacheable :
          probe = [fn |-> "IsCacheable", req |-> req, resp |-> resp, result |-> Nil]

\* the decision modifyResponse takes for the drawn exchange
ApplyCacheDecision ==
    /\ probe.fn = "IsCacheable"
    /\ probe.result = Nil
    /\ probe' = [probe EXCEPT !.result = Some(CacheDecision(probe.resp, probe.req, config))]
    /\ UNCHANGED <<processVars, config, reverseProxy, cache, plugins, mu, pluginsMu, upd,
                   reloads,
                   store, now, srv, ev>>

NextCacheable == ApplyCacheDecision

SpecCacheable == InitCacheable /\ [][NextCacheable]_vars

InitKey ==
    /\ ProxyInit
    /\ \E a \in RequestsKey, b \in RequestsKey :
          probe = [fn |-> "generateKey", a |-> a, b |-> b, keys |-> Nil]

\* the keys of the two drawn requests
ApplyGenerateKey ==
    /\ probe.fn = "generateKey"
    /\ probe.keys = Nil
    /\ probe' = [probe EXCEPT !.keys = <<generateKey(probe.a), generateKey(probe.b)>>]
    /\ UNCHANGED <<processVars, config, reverseProxy, cache, plugins, mu, pluginsMu, upd,
                   reloads,
                   store, now, srv, ev>>

NextKey == ApplyGenerateKey

SpecKey == InitKey /\ [][NextKey]_vars

(***************************************************************************)
(* calculateTTL and isExpired, applied to drawn entries.                   *)
(***************************************************************************)
Timestamps == {0, 1800}
MaxAges == {Nil, Some(0), Some(60), Some(7200)}
ExpiresTimes == {Nil, Some(900), Some(3600), Some(9000)}
Clock == {0, 60, 61, 1800, 3600, 3601, 5400, 5401, 7200, 7201, 9000, 9001}

EntriesTTL ==
    {[Timestamp |-> ts, MaxAge |-> ma, Expires |-> ex] :
        ts \in Timestamps, ma \in MaxAges, ex \in ExpiresTimes}

InitTTL ==
    /\ ProxyInit
    /\ \E entry \in EntriesTTL, t \in Clock :
          /\ t >= entry.Timestamp
          /\ probe = [fn |-> "calculateTTL", entry |-> entry, t |-> t, ttl |-> Nil,
                      expired |-> Nil]

\* the TTL of the drawn entry and whether it is expired at the drawn time
ApplyCalculateTTL ==
    /\ probe.fn = "calculateTTL"
    /\ probe.ttl = Nil
    /\ probe' = [probe EXCEPT !.ttl = Some(calculateTTL(probe.entry)),
                              !.expired = Some(isExpired(probe.entry, probe.t))]
    /\ UNCHANGED <<processVars, config, reverseProxy, cache, plugins, mu, pluginsMu, upd,
                   reloads,
                   store, now, srv, ev>>

NextTTL == ApplyCalculateTTL

SpecTTL == InitTTL /\ [][NextTTL]_vars

(***************************************************************************)
(* The plugin loop, applied to drawn lists, registries and failures.       *)
(***************************************************************************)
LoadablePlugins == {PluginA, PluginB, PluginX}
PluginLists == UNION {[1..n -> LoadablePlugins] : n \in 0..MaxPlugins}
LoadedPluginOf(pc) ==
    [plugin |-> [html |-> PluginFile(pc).html, xml |-> PluginFile(pc).xml],
     path |-> pc.Path, name |-> pc.Name, gen |-> 0]
RegistryOf(pcs) ==
    [k \in {PluginKey(pc.Path, pc.Name) : pc \in pcs} |->
        LoadedPluginOf(CHOOSE pc \in pcs : PluginKey(pc.Path, pc.Name) = k)]
Registries == {RegistryOf(pcs) : pcs \in SUBSET LoadablePlugins}
PluginFailures == {NoFailure} \cup {Failure("plugin", i) : i \in 1..MaxPlugins}
RequestsPlugins == {Req("GET", "/a", "x=1", "", {}), Req("POST", "/b", "", "", {})}

InitPlugins ==
    /\ ProxyInit
    /\ \E pluginConfigs \in PluginLists, registry \in Registries,
          fail \in PluginFailures, req \in RequestsPlugins :
          probe = [fn |-> "processWithPlugins", pluginConfigs |-> pluginConfigs,
                   registry |-> registry, fail |-> fail, req |-> req,
                   done |-> FALSE, run |-> NoValue]

\* the plugin loop runs on the drawn list
ApplyInvokePlugins ==
    /\ probe.fn = "processWithPlugins"
    /\ ~probe.done
    /\ probe' = [probe EXCEPT !.done = TRUE,
                              !.run = InvokePlugins(probe.pluginConfigs, probe.registry,
                                                    probe.req, probe.fail)]
    /\ UNCHANGED <<processVars, config, reverseProxy, cache, plugins, mu, pluginsMu, upd,
                   reloads,
                   store, now, srv, ev>>

NextPlugins == ApplyInvokePlugins

SpecPlugins == InitPlugins /\ [][NextPlugins]_vars

(***************************************************************************)
(* loadPlugin, applied to drawn plugin references and mime types.          *)
(***************************************************************************)
validHTMLXMLMimeTypes ==
    {"text/html", "application/xhtml+xml", "text/xml", "application/xml",
     "application/rss+xml", "application/atom+xml"}

InitLoad ==
    /\ ProxyInit
    /\ \E pc \in PluginConfigs, mimeType \in validHTMLXMLMimeTypes :
          probe = [fn |-> "loadPlugin", pc |-> pc, mimeType |-> mimeType,
                   done |-> FALSE, loaded |-> NoValue]

\* the drawn reference is loaded for the drawn mime type
ApplyLoadPlugin ==
    /\ probe.fn = "loadPlugin"
    /\ ~probe.done
    /\ probe' = [probe EXCEPT !.done = TRUE,
                              !.loaded = loadPlugin(probe.pc, probe.mimeType, 0)]
    /\ UNCHANGED <<processVars, config, reverseProxy, cache, plugins, mu, pluginsMu, upd,
                   reloads,
                   store, now, srv, ev>>

NextLoad == ApplyLoadPlugin

SpecLoad == InitLoad /\ [][NextLoad]_vars

(***************************************************************************)
(* Properties of the reload.                                               *)
(***************************************************************************)
ReloadFailed == upd.pc = "idle" /\ upd.result \notin {"none", "ok"}

\* the registry keys a configuration asks for
ConfigKeys(cfg) ==
    {PluginKey(PluginRefs(cfg)[i].pc.Path, PluginRefs(cfg)[i].pc.Name) :
        i \in 1..Len(PluginRefs(cfg))}

\* C1: after UpdateConfig has returned an error, the active configuration,
\* the backend target, the cache handle and the plugin registry are exactly
\* what they were before the call.
C1_FailedReloadChangesNothing ==
    ReloadFailed =>
        /\ config = upd.before.config
        /\ reverseProxy = upd.before.reverseProxy
        /\ cache = upd.before.cache
        /\ plugins = upd.before.plugins

\* C8: LoadPlugins is fail-closed: when loading a plugin reference fails the
\* registry is the one from before the call, and the registry always holds
\* exactly the plugins of the active configuration, never a partial candidate.
C8_LoadPluginsFailClosed ==
    /\ (upd.pc = "idle" /\ upd.result = "failed to reload plugins")
          => plugins = upd.before.plugins
    /\ DOMAIN plugins = ConfigKeys(config)

\* a reload failed on a plugin after another plugin of the new configuration
\* had been loaded into the candidate map
C8_Witness ==
    /\ upd.pc = "idle"
    /\ upd.result = "failed to reload plugins"
    /\ PluginKey(PluginB.Path, PluginB.Name) \notin DOMAIN plugins

\* C9 as stated: while a reload is loading plugins, a request that wants the
\* read lock gets it without waiting.
C9_LoadingDoesNotBlockReaders ==
    (upd.pc = "loading" /\ srv.pc = "rlock") => CanRLock(mu)

\* C9 as the code has it: from the moment UpdateConfig holds the write lock
\* until it returns, the plugin load included, no request is inside the locked
\* section of ServeHTTP; the load runs under both write locks, and a request
\* runs only while no reload holds the lock.
C9_ReloadExcludesReaders ==
    /\ upd.pc \in {"prepare", "plugins", "loading"}
          => (mu.writer /\ mu.readers = 0 /\ srv.pc # "forwarded")
    /\ upd.pc = "loading" => pluginsMu.writer
    /\ srv.pc = "forwarded" => (mu.readers = 1 /\ ~mu.writer /\ ~pluginsMu.writer)

\* a request arrived while the reload is loading plugins and has to wait
C9_Witness == upd.pc = "loading" /\ srv.pc = "rlock" /\ ~CanRLock(mu)

(***************************************************************************)
(* Properties of a response handled by modifyResponse.                     *)
(***************************************************************************)
\* the last step delivered a response that came from the backend
FromBackend == ev.kind = "served" /\ ev.out.source # "cache"

Upstream(resp) == Body(resp.Len, <<>>)

\* the response is one the pipeline is configured for
Configured(e) ==
    /\ extractMimeType(e.resp.ContentType) \in
          {e.cfg.MimeTypes[i].MimeType : i \in 1..Len(e.cfg.MimeTypes)}
    /\ e.resp.StatusCode = StatusOK

Oversized(e) == e.resp.Len > e.cfg.MaxResponseSizeMB * BytesPerMB

\* parsing, a plugin of the configured list, or rendering failed
PipelineFailed(e) ==
    LET n == Len(GetPluginsForMimeType(e.cfg, extractMimeType(e.resp.ContentType)))
    IN /\ ~Oversized(e)
       /\ \/ e.resp.fail.stage \in {"parse", "render"}
          \/ e.resp.fail.stage = "plugin" /\ e.resp.fail.at <= n

\* C2: when parsing, a plugin call or rendering fails for a 200 response of
\* a configured mime type, the client receives the upstream status and the
\* unmodified upstream body.
C2_ProcessingErrorServesOriginal ==
    (FromBackend /\ Configured(ev) /\ PipelineFailed(ev))
        => /\ ev.out.StatusCode = ev.resp.StatusCode
           /\ ev.out.Body = Upstream(ev.resp)

\* C3: a 200 response of a configured mime type whose body is longer than
\* the maximum size reaches the client byte for byte, whatever its
\* Content-Length header says.
C3_OversizedBodyPassedIntact ==
    (FromBackend /\ Configured(ev) /\ Oversized(ev) /\ ev.resp.fail.stage # "read")
        => ev.out.Body = Upstream(ev.resp)

\* C4: Cache.Set is never called for a response whose body exceeds the
\* maximum size, and no stored entry derives from such a body.
C4_NoCacheWriteForOversized ==
    /\ (FromBackend /\ Oversized(ev)) => ~ev.set
    /\ \A r \in DOMAIN store : \A k \in DOMAIN store[r] :
          store[r][k].Origin.Len <= store[r][k].Origin.cfg.MaxResponseSizeMB * BytesPerMB

(***************************************************************************)
(* Properties of the cache.                                                *)
(***************************************************************************)
DenylistOf(cfg) == {cfg.CookieDenylist[i] : i \in 1..Len(cfg.CookieDenylist)}
MimeTypesOf(cfg) == {cfg.MimeTypes[i].MimeType : i \in 1..Len(cfg.MimeTypes)}
Forbids(cacheControl) ==
    \E i \in 1..Len(cacheControl) :
        cacheControl[i].name \in {"no-store", "no-cache", "private"}

\* C5: every entry in the cache store was written for a GET request whose
\* backend response had status 200, a configured mime type, no Set-Cookie
\* header and no no-store, no-cache or private directive, and whose request
\* carried no cookie named on the denylist.
C5_StoredEntriesWereCacheable ==
    \A r \in DOMAIN store : \A k \in DOMAIN store[r] :
        LET e == store[r][k]
            o == e.Origin
        IN /\ o.req.Method = "GET"
           /\ e.StatusCode = StatusOK
           /\ extractMimeType(o.ContentType) \in MimeTypesOf(o.cfg)
           /\ o.SetCookie = "absent"
           /\ ~Forbids(e.Headers.CacheControl)
           /\ o.req.Cookies \cap DenylistOf(o.cfg) = {}

\* the store holds an entry, and a GET carrying a denylisted cookie has just
\* been answered from the backend with a response that is otherwise cacheable
C5_Witness ==
    /\ store[cache.Redis] # EmptyMap
    /\ FromBackend
    /\ ev.req.Method = "GET"
    /\ ev.req.Cookies \cap DenylistOf(ev.cfg) # {}
    /\ ev.resp = ResponseCacheable
    /\ ~ev.set

FallbackTTL(entry) == entry.MaxAge = Nil /\ entry.Expires = Nil

Age(entry) == now - entry.Timestamp

\* a cacheable GET answered by the backend without max-age or Expires is
\* answered MISS and stored, with the body it was answered with, under the
\* fallback TTL
MissIsStored ==
    (/\ FromBackend
     /\ ev.set
     /\ ev.writeOK
     /\ parseMaxAge(ev.resp.CacheControl) = Nil
     /\ ev.resp.Expires = Nil)
        => /\ ev.out.XCache = Some("MISS")
           /\ generateKey(ev.req) \in DOMAIN store[cache.Redis]
           /\ LET e == store[cache.Redis][generateKey(ev.req)]
              IN /\ e.Body = ev.out.Body
                 /\ e.Timestamp = now
                 /\ FallbackTTL(e)
                 /\ calculateTTL(e) = DefaultTTL

\* a GET whose key has an entry younger than the fallback TTL is not forwarded
LiveEntryIsNotForwarded ==
    (ev.kind = "lookup" /\ ev.req.Method = "GET" /\ ev.readOK) =>
        LET k == generateKey(ev.req)
            c == store[cache.Redis]
        IN (k \in DOMAIN c /\ FallbackTTL(c[k])) => Age(c[k]) >= DefaultTTL

\* an answer from the cache carries cache-status HIT, is given without the
\* backend, and is not given for an entry older than the fallback TTL
HitWithoutBackend ==
    (ev.kind = "served" /\ ev.out.source = "cache" /\ FallbackTTL(ev.entry)) =>
        /\ ev.out.XCache = Some("HIT")
        /\ ev.target = NoValue
        /\ srv.pc = "idle"
        /\ mu.readers = 0
        /\ Age(ev.entry) <= DefaultTTL

\* the body of an answer from the cache is the body of the first answer
HitBodyIdentical ==
    (ev.kind = "served" /\ ev.out.source = "cache" /\ FallbackTTL(ev.entry)) =>
        ev.out.Body = ev.entry.Body

\* C7: for a cacheable GET whose backend response has neither max-age nor
\* Expires, the first request is answered MISS and stored with the fallback
\* TTL; a later GET with the same key before the TTL elapses is answered HIT
\* with a body identical to the first response and without the backend; after
\* the TTL has elapsed the GET is a MISS and goes to the backend again.
C7_FallbackTTLFlow ==
    /\ MissIsStored
    /\ LiveEntryIsNotForwarded
    /\ HitWithoutBackend
    /\ HitBodyIdentical

C11_TTLPriority ==
    (probe.fn = "calculateTTL" /\ probe.ttl # Nil) =>
        LET e == probe.entry
            chosen == IF e.MaxAge # Nil THEN e.MaxAge[1]
                      ELSE IF e.Expires # Nil THEN e.Expires[1] - e.Timestamp
                      ELSE DefaultTTL
        IN /\ e.MaxAge # Nil => probe.ttl[1] = e.MaxAge[1]
           /\ (e.MaxAge = Nil /\ e.Expires # Nil)
                 => probe.ttl[1] = e.Expires[1] - e.Timestamp
           /\ (e.MaxAge = Nil /\ e.Expires = Nil) => probe.ttl[1] = DefaultTTL
           /\ probe.expired[1] <=> (probe.t - e.Timestamp > chosen)

\* the TTL was computed for an entry with both max-age and Expires, which
\* give different values, at a time between the two
C11_Witness ==
    /\ probe.fn = "calculateTTL"
    /\ probe.ttl # Nil
    /\ probe.entry.MaxAge = Some(60)
    /\ probe.entry.Expires = Some(3600)
    /\ probe.entry.Timestamp = 0
    /\ probe.t = 1800
    /\ probe.expired = Some(TRUE)

\* C18: after a successful reload, a plugin whose key was in the registry
\* before the reload and is in the new configuration is the same LoadedPlugin
\* instance as before: it was not opened or validated again.
C18_UnchangedPluginsAreReused ==
    (upd.pc = "idle" /\ upd.result = "ok") =>
        \A k \in DOMAIN plugins \cap DOMAIN upd.before.plugins :
            plugins[k] = upd.before.plugins[k]

\* a reload succeeded that kept one plugin of the old registry and loaded
\* another one anew
C18_Witness ==
    /\ upd.pc = "idle"
    /\ upd.result = "ok"
    /\ DOMAIN plugins \cap DOMAIN upd.before.plugins # {}
    /\ \E k \in DOMAIN plugins \ DOMAIN upd.before.plugins : plugins[k].gen = reloads

\* the step of UpdateConfig that parses the URL and looks at the cache
\* settings
Preparing == upd.pc = "prepare" /\ upd'.pc # "prepare"

\* C19 as stated: UpdateConfig replaces the cache client exactly when the
\* cache settings of the new configuration differ from those of the active
\* one.
C19_NewClientIffSettingsDiffer ==
    [][Preparing => ((cache' # cache) <=> (config.Redis # upd.cfg.Redis))]_vars

\* C19 as the code has it: the cache client is replaced exactly when the
\* backend URL parses, the settings differ and the new client can be created,
\* and then it is a client for the new settings; in every other case, and in
\* every other step, the handle stays the one it was.
C19_NewClientIffSettingsDifferAndValid ==
    /\ [][Preparing =>
            /\ (cache' # cache) <=>
                  /\ config.Redis # upd.cfg.Redis
                  /\ upd.cfg.BackendURL # ConfigBadURL.BackendURL
                  /\ upd.cfg.Redis # RedisDown
            /\ (cache' # cache) => cache'.Redis = upd.cfg.Redis]_vars
    /\ [][~Preparing => cache' = cache]_vars

\* a reload whose cache settings differ from the active ones has got a new
\* client, after an earlier reload with equal settings had kept the handle
C19_Witness ==
    /\ upd.pc = "plugins"
    /\ cache # upd.before.cache
    /\ cache.Redis = upd.cfg.Redis
    /\ cache.gen = MaxReloads

(***************************************************************************)
(* Properties of the responses passed through.                             *)
(***************************************************************************)
\* the client receives the upstream status, body and headers, with the
\* version header added, and Cache.Set is not called
PassedThrough(e) ==
    /\ e.out.StatusCode = e.resp.StatusCode
    /\ e.out.Body = Upstream(e.resp)
    /\ e.out.ContentLength = e.resp.ContentLength
    /\ e.out.XCache = e.resp.XCache
    /\ e.out.XVersion
    /\ ~e.set

NotConfigured(e) == extractMimeType(e.resp.ContentType) \notin MimeTypesOf(e.cfg)

\* C12: a backend response whose content type is not a configured mime type
\* reaches the client with the upstream status and body, the version header
\* being the only change; no plugin runs on it and the step that answers it
\* leaves the cache store as it was.
C12_UnconfiguredMimePassesThrough ==
    /\ [](FromBackend /\ NotConfigured(ev) => PassedThrough(ev))
    /\ [][(FromBackend' /\ NotConfigured(ev')) => store' = store]_vars

\* a response that is not configured was answered although it is longer than
\* the size limit and the first plugin would have failed on it
C12_Witness ==
    /\ FromBackend
    /\ NotConfigured(ev)
    /\ ev.req.Method = "GET"
    /\ ev.resp.ContentType = ContentTypeJSON
    /\ ev.resp.Len > SizeLimit
    /\ ev.resp.fail = Failure("plugin", 1)
    /\ store[cache.Redis] # EmptyMap

\* C13: a backend response with a status other than 200 reaches the client
\* with its status and body unmodified and the version header added, also
\* when its content type is configured; no plugin runs on it and the step
\* that answers it leaves the cache store as it was.
C13_Non200PassesThrough ==
    /\ [](FromBackend /\ ev.resp.StatusCode # StatusOK => PassedThrough(ev))
    /\ [][(FromBackend' /\ ev'.resp.StatusCode # StatusOK) => store' = store]_vars

\* a 404 of a configured mime type, cacheable in every other respect, was
\* answered to a GET while the store holds an entry
C13_Witness ==
    /\ FromBackend
    /\ ~NotConfigured(ev)
    /\ ev.req.Method = "GET"
    /\ ev.req.Cookies = {}
    /\ ev.resp = [ResponseCacheable EXCEPT !.StatusCode = 404]
    /\ store[cache.Redis] # EmptyMap

(***************************************************************************)
(* Properties of the headers the proxy adds.                               *)
(***************************************************************************)
\* the response delivered is the backend's or the cache's, not an error
\* answer made up by the reverse proxy
Answered == ev.kind = "served" /\ ev.out.source \in {"backend", "cache"}

\* the version header is on every response answered
VersionStamped == Answered => ev.out.XVersion

\* cache-status is HIT from the cache and MISS on a response processed fresh
HitOrMissStamped ==
    /\ (Answered /\ ev.out.source = "cache") => ev.out.XCache = Some("HIT")
    /\ (FromBackend /\ Answered /\ ~PassesThrough(ev.resp, ev.cfg))
          => ev.out.XCache = Some("MISS")

\* no other cache-status value reaches a client
NoOtherCacheStatus == Answered => ev.out.XCache \in {Nil, Some("HIT"), Some("MISS")}

\* C14: every response returned from a backend response or from the cache
\* carries the version header; from the cache the cache-status is HIT, on a
\* response processed fresh it is MISS, and no other cache-status value is
\* delivered, whatever the backend sent or the entry stored.
C14_VersionAndCacheStatus ==
    /\ VersionStamped
    /\ HitOrMissStamped
    /\ NoOtherCacheStatus

(***************************************************************************)
(* Properties of the plugin loop.                                          *)
(***************************************************************************)
KeyAt(pluginConfigs, j) == PluginKey(pluginConfigs[j].Path, pluginConfigs[j].Name)

\* the j-th plugin of the drawn list is not registered, or its call fails
StopsAt(j) ==
    \/ KeyAt(probe.pluginConfigs, j) \notin DOMAIN probe.registry
    \/ probe.fail = Failure("plugin", j)

\* the first position at which the loop has to stop, 0 if there is none
FirstStop ==
    LET n == Len(probe.pluginConfigs)
    IN IF \E j \in 1..n : StopsAt(j)
       THEN CHOOSE j \in 1..n : StopsAt(j) /\ \A k \in 1..(j - 1) : ~StopsAt(k)
       ELSE 0

\* C15: the plugins of the list are called one at a time in list order, each
\* on the tree as the earlier ones left it and with the request's URL and
\* context; when the i-th plugin is not found or fails, none after it is
\* called and the error names the i-th plugin.
C15_PluginsInOrderAbortOnFailure ==
    (probe.fn = "processWithPlugins" /\ probe.done) =>
        LET list == probe.pluginConfigs
            run == probe.run
            i == FirstStop
            found == i # 0 /\ KeyAt(list, i) \in DOMAIN probe.registry
        IN /\ \A j \in 1..Len(run.calls) :
                 /\ run.calls[j].plugin = probe.registry[KeyAt(list, j)]
                 /\ run.calls[j].req = probe.req
                 /\ run.calls[j].tree = [k \in 1..(j - 1) |-> KeyAt(list, k)]
           /\ i = 0 => (~run.err /\ Len(run.calls) = Len(list))
           /\ i # 0 =>
                 /\ run.err
                 /\ run.at = i
                 /\ Len(run.calls) = IF found THEN i ELSE i - 1
                 /\ run.error = IF found
                                THEN PluginError("plugin failed", list[i].Name)
                                ELSE PluginError("plugin not found", KeyAt(list, i))

\* the second of three registered plugins failed: two calls were made
C15_Witness ==
    /\ probe.fn = "processWithPlugins"
    /\ probe.done
    /\ probe.pluginConfigs = <<PluginB, PluginA, PluginX>>
    /\ probe.registry = RegistryOf(LoadablePlugins)
    /\ probe.fail = Failure("plugin", 2)
    /\ Len(probe.run.calls) = 2

(***************************************************************************)
(* Properties of loading a plugin.                                         *)
(***************************************************************************)
\* the plugin file of the drawn reference opens and exports the symbol
Opens == PluginFile(probe.pc).opens /\ PluginFile(probe.pc).symbol

\* the symbol has the method the class of the drawn mime type requires
HasRequiredMethod ==
    IF isHTMLMimeType(probe.mimeType) THEN PluginFile(probe.pc).html
    ELSE PluginFile(probe.pc).xml

\* a plugin without the method its rule requires is refused
MissingMethodIsRefused ==
    (probe.fn = "loadPlugin" /\ probe.done /\ Opens /\ ~HasRequiredMethod)
        => probe.loaded.err

\* a plugin with the method its rule requires is loaded
RequiredMethodSuffices ==
    (probe.fn = "loadPlugin" /\ probe.done /\ Opens /\ HasRequiredMethod)
        => ~probe.loaded.err

\* the file of the drawn reference passes the security checks
Secure(pc) ==
    /\ FileStat(pc).exists
    /\ ~FileStat(pc).symlink
    /\ ~FileStat(pc).worldWritable
    /\ FileStat(pc).allowed

\* C17: a plugin whose path is a symbolic link, whose file is world-writable
\* or missing, or whose path lies outside the allowed directories is never
\* opened and loaded; every plugin loaded has passed these checks.
C17_OpenedOnlyIfSecure ==
    (probe.fn = "loadPlugin" /\ probe.done /\ ~Secure(probe.pc)) => probe.loaded.err

\* C16: loading fails whenever a plugin under an HTML-class rule lacks the
\* HTML method or a plugin under an XML-class rule lacks the XML method; a
\* plugin with the method its rule's class requires, or with both, loads.
C16_InterfaceValidation ==
    /\ MissingMethodIsRefused
    /\ RequiredMethodSuffices

(***************************************************************************)
(* Properties of a failing cache.                                          *)
(***************************************************************************)
\* what the client would get for the exchange from an empty, working cache
WithEmptyCache(e) ==
    modifyResponse(e.resp, e.req, e.cfg, plugins, EmptyMap, now, TRUE).out

\* C20: a cache read that fails is a miss, the request goes to the backend
\* and is answered as usual; a cache write that fails changes nothing in the
\* answer: the client gets what it would get from an empty, working cache.
C20_CacheFailuresAreInvisible ==
    /\ (ev.kind = "lookup" /\ ~ev.readOK) => srv.pc = "forwarded"
    /\ (ev.kind = "served" /\ ev.out.source = "cache") => ev.readOK
    /\ FromBackend => ev.out = WithEmptyCache(ev)
    /\ (FromBackend /\ ev.set /\ ~ev.writeOK) => ev.out.StatusCode = StatusOK

\* a GET was answered by the backend although the store holds an entry for
\* its key written at this very time, so its read had failed, and the write
\* of the answer failed too
C20_Witness ==
    /\ FromBackend
    /\ ev.req.Method = "GET"
    /\ ev.set
    /\ ~ev.writeOK
    /\ generateKey(ev.req) \in DOMAIN store[cache.Redis]
    /\ store[cache.Redis][generateKey(ev.req)].Timestamp = now
    /\ ev.out.XCache = Some("MISS")

(***************************************************************************)
(* The size ceiling.                                                       *)
(***************************************************************************)
\* the bytes of the upstream body that processResponse holds in memory once
\* its io.ReadAll has returned: the whole body when the declared length is
\* over the limit, at most maxSize + 1 bytes through the LimitReader otherwise
BytesRead(resp, cfg) ==
    IF resp.ContentLength > 0 /\ resp.ContentLength > MaxSize(cfg)
    THEN Upstream(resp).len
    ELSE LimitRead(Upstream(resp), MaxSize(cfg) + 1).len

\* the plugins of the rule ran on the body that was delivered
Piped(e) == e.out.Body.applied # <<>>

AtMostOneOverRead ==
    (FromBackend /\ Configured(ev)) => BytesRead(ev.resp, ev.cfg) <= MaxSize(ev.cfg) + 1

ExactLimitIsProcessed ==
    (FromBackend /\ Configured(ev) /\ ev.resp.fail = NoFailure
        /\ ev.resp.Len = MaxSize(ev.cfg)) => Piped(ev)

OverLimitIsNotProcessed ==
    (FromBackend /\ Configured(ev) /\ Oversized(ev)) => ~Piped(ev)

\* C21: for a 200 response of a configured mime type the proxy reads at most
\* the maximum size plus one byte of the body into memory; a body of exactly
\* the maximum size goes through the plugins and a longer one does not.
C21_SizeCeiling ==
    /\ AtMostOneOverRead
    /\ ExactLimitIsProcessed
    /\ OverLimitIsNotProcessed

(***************************************************************************)
(* Proxy.UpdateConfig called from two goroutines at once.                  *)
(***************************************************************************)
\* p.mu after Unlock by caller i: a caller still in Lock() keeps readers out
Released(i) ==
    [writer |-> FALSE, readers |-> 0,
     pending |-> \E j \in Callers \ {i} : calls[j].pc = "lock"]

Return(i, result) == [calls[i] EXCEPT !.pc = "idle", !.result = result]

\* caller i calls UpdateConfig(cfg): p.mu.Lock() is requested
ConcurrentCall(i, cfg) ==
    /\ calls[i].pc = "idle"
    /\ calls[i].result = "none"
    /\ reloads' = reloads + 1
    /\ calls' = [calls EXCEPT ![i] = [NoCall EXCEPT !.pc = "lock", !.cfg = cfg,
                                      !.seq = reloads + 1, !.before = Snapshot]]
    /\ mu' = [mu EXCEPT !.pending = TRUE]
    /\ ev' = NoEvent
    /\ UNCHANGED <<main, configFile, sigChan, signals, ready, hreq, probe, config,
                   reverseProxy, cache, plugins, pluginsMu, upd, store, now, srv>>

\* p.mu.Lock() returns once neither a writer nor a reader holds the lock
ConcurrentLock(i) ==
    /\ calls[i].pc = "lock"
    /\ ~mu.writer
    /\ mu.readers = 0
    /\ mu' = [writer |-> TRUE, readers |-> 0,
              pending |-> \E j \in Callers \ {i} : calls[j].pc = "lock"]
    /\ calls' = [calls EXCEPT ![i].pc = "prepare"]
    /\ ev' = NoEvent
    /\ UNCHANGED <<main, configFile, sigChan, signals, ready, hreq, probe, config,
                   reverseProxy, cache, plugins, pluginsMu, upd, reloads, store, now, srv>>

\* url.Parse, then the cache client is replaced when the Redis settings differ
ConcurrentPrepare(i) ==
    /\ calls[i].pc = "prepare"
    /\ LET t == urlParse(calls[i].cfg.BackendURL)
           c == cacheNew(calls[i].cfg.Redis, calls[i].seq)
       IN IF t.err
          THEN /\ calls' = [calls EXCEPT ![i] = Return(i, "invalid backend URL")]
               /\ mu' = Released(i)
               /\ UNCHANGED cache
          ELSE IF config.Redis # calls[i].cfg.Redis
          THEN IF c.err
               THEN /\ calls' = [calls EXCEPT
                                    ![i] = Return(i, "failed to create new cache client")]
                    /\ mu' = Released(i)
                    /\ UNCHANGED cache
               ELSE /\ cache' = c.client
                    /\ calls' = [calls EXCEPT ![i].pc = "plugins", ![i].target = t.target]
                    /\ UNCHANGED mu
          ELSE /\ calls' = [calls EXCEPT ![i].pc = "plugins", ![i].target = t.target]
               /\ UNCHANGED <<mu, cache>>
    /\ ev' = NoEvent
    /\ UNCHANGED <<main, configFile, sigChan, signals, ready, hreq, probe, config,
                   reverseProxy, plugins, pluginsMu, upd, reloads, store, now, srv>>

\* p.plugins.LoadPlugins(cfg) takes m.mu.Lock()
ConcurrentLoadPluginsLock(i) ==
    /\ calls[i].pc = "plugins"
    /\ ~pluginsMu.writer
    /\ pluginsMu.readers = 0
    /\ pluginsMu' = [writer |-> TRUE, pending |-> FALSE, readers |-> 0]
    /\ calls' = [calls EXCEPT ![i].pc = "loading"]
    /\ ev' = NoEvent
    /\ UNCHANGED <<main, configFile, sigChan, signals, ready, hreq, probe, config,
                   reverseProxy, cache, plugins, mu, upd, reloads, store, now, srv>>

\* the loop of LoadPlugins fails: UpdateConfig returns the error
ConcurrentLoadPluginsFail(i) ==
    /\ calls[i].pc = "loading"
    /\ LoadPlugins(calls[i].cfg, plugins, calls[i].seq).err
    /\ plugins' = LoadPlugins(calls[i].cfg, plugins, calls[i].seq).plugins
    /\ pluginsMu' = Unlocked
    /\ mu' = Released(i)
    /\ calls' = [calls EXCEPT ![i] = Return(i, "failed to reload plugins")]
    /\ ev' = NoEvent
    /\ UNCHANGED <<main, configFile, sigChan, signals, ready, hreq, probe, config,
                   reverseProxy, cache, upd, reloads, store, now, srv>>

\* the loop of LoadPlugins completes: the configuration and the new reverse
\* proxy are installed and UpdateConfig returns nil
ConcurrentLoadPluginsInstall(i) ==
    /\ calls[i].pc = "loading"
    /\ ~LoadPlugins(calls[i].cfg, plugins, calls[i].seq).err
    /\ plugins' = LoadPlugins(calls[i].cfg, plugins, calls[i].seq).plugins
    /\ pluginsMu' = Unlocked
    /\ config' = calls[i].cfg
    /\ reverseProxy' = calls[i].target
    /\ mu' = Released(i)
    /\ calls' = [calls EXCEPT ![i] = Return(i, "ok")]
    /\ ev' = NoEvent
    /\ UNCHANGED <<main, configFile, sigChan, signals, ready, hreq, probe, cache,
                   upd, reloads, store, now, srv>>

NextConcurrent ==
    \E i \in Callers :
        \/ \E cfg \in Configs : ConcurrentCall(i, cfg)
        \/ ConcurrentLock(i)
        \/ ConcurrentPrepare(i)
        \/ ConcurrentLoadPluginsLock(i)
        \/ ConcurrentLoadPluginsFail(i)
        \/ ConcurrentLoadPluginsInstall(i)

SpecConcurrent == Init /\ [][NextConcurrent]_vars

\* UpdateConfig(cfg) run alone on the proxy state st: the state it leaves
UpdateConfig(st, cfg, gen) ==
    LET t == urlParse(cfg.BackendURL)
        c == cacheNew(cfg.Redis, gen)
        swap == st.config.Redis # cfg.Redis
        st1 == IF swap THEN [st EXCEPT !.cache = c.client] ELSE st
        l == LoadPlugins(cfg, st.plugins, gen)
    IN IF t.err THEN st
       ELSE IF swap /\ c.err THEN st
       ELSE IF l.err THEN st1
       ELSE [config |-> cfg, reverseProxy |-> t.target, cache |-> st1.cache,
             plugins |-> l.plugins]

Returned(i) == calls[i].pc = "idle" /\ calls[i].result # "none"

Changing(i) == calls[i].pc \in {"prepare", "plugins", "loading"}

\* the call that was made first, and the other one
FirstCaller == CHOOSE i \in Callers : calls[i].seq = 1
After(i, j) ==
    UpdateConfig(UpdateConfig(calls[FirstCaller].before, calls[i].cfg, calls[i].seq),
                 calls[j].cfg, calls[j].seq)

NeverBothChanging == \A i, j \in Callers : i # j => ~(Changing(i) /\ Changing(j))

OneAfterTheOther ==
    (\A i \in Callers : Returned(i)) => Snapshot \in {After(1, 2), After(2, 1)}

HandleOfActiveConfig ==
    (\A i \in Callers : Returned(i)) => cache.Redis = config.Redis

\* C22: two UpdateConfig calls never change the state at the same time; once
\* both have returned the state is the one left by running them one after the
\* other in some order, and the cache handle belongs to the configuration
\* that is active, as do the backend target and the registry.
C22_SingleWriterReload ==
    /\ NeverBothChanging
    /\ OneAfterTheOther
    /\ HandleOfActiveConfig

(***************************************************************************)
(* internal/config: Load and validateConfig, applied to drawn files.       *)
(***************************************************************************)
\* longest list of rules, and of plugin references in a rule, in a drawn file
MaxRules == 2
MaxRefs == 2

\* strings.HasSuffix on a string held as its sequence of parts
HasSuffix(s, suffix) == Len(s) > 0 /\ s[Len(s)] = suffix

\* url.Parse(...).Scheme
urlScheme(b) ==
    CASE b \in {"http://one", "http://two", "http://three"} -> "http"
      [] b = "https://one" -> "https"
      [] b = "ftp://one" -> "ftp"
      [] OTHER -> ""

ConfigError(message) == [err |-> TRUE, error |-> message, config |-> NoValue]

\* the first plugin reference of a rule that validateConfig refuses, 0 if none
RECURSIVE FirstBadPlugin(_, _)
FirstBadPlugin(ps, j) ==
    IF j > Len(ps) THEN 0
    ELSE IF \/ ps[j].Path = <<>>
            \/ ps[j].Name = <<>>
            \/ ~HasSuffix(ps[j].Name, "Plugin")
            \/ ~HasSuffix(ps[j].Path, ".so")
         THEN j
         ELSE FirstBadPlugin(ps, j + 1)

\* the message for plugin reference j of a rule
PluginMessage(pc) ==
    IF pc.Path = <<>> THEN "path is required"
    ELSE IF pc.Name = <<>> THEN "name is required"
    ELSE IF ~HasSuffix(pc.Name, "Plugin") THEN "plugin name should end with 'Plugin'"
    ELSE "plugin path must end with '.so'"

\* the loop of validateConfig over config.MimeTypes from rule i on: the
\* message of the first check that fails, "" when none does
RECURSIVE validateMimeTypes(_, _)
validateMimeTypes(rules, i) ==
    IF i > Len(rules) THEN ""
    ELSE IF rules[i].MimeType \notin validHTMLXMLMimeTypes THEN "invalid MIME type"
    ELSE IF Len(rules[i].Plugins) = 0 THEN "at least one plugin must be specified"
    ELSE IF FirstBadPlugin(rules[i].Plugins, 1) # 0
         THEN PluginMessage(rules[i].Plugins[FirstBadPlugin(rules[i].Plugins, 1)])
    ELSE validateMimeTypes(rules, i + 1)

validateConfig_NoRuleChecks(c) ==
    IF c.BackendURL = "" THEN "backend_url is required"
    ELSE IF urlParse(c.BackendURL).err \/ urlScheme(c.BackendURL) \notin {"http", "https"}
         THEN "backend_url must be a valid HTTP/HTTPS URL"
    ELSE IF c.Redis.Addr = "" THEN "redis.addr is required"
    ELSE IF c.MaxResponseSizeMB < 0 THEN "max_response_size_mb must be positive"
    ELSE ""

\* validateConfig(config): the message of the error, "" for nil
validateConfig(c) ==
    IF c.BackendURL = "" THEN "backend_url is required"
    ELSE IF urlParse(c.BackendURL).err \/ urlScheme(c.BackendURL) \notin {"http", "https"}
         THEN "backend_url must be a valid HTTP/HTTPS URL"
    ELSE IF c.Redis.Addr = "" THEN "redis.addr is required"
    ELSE IF c.MaxResponseSizeMB < 0 THEN "max_response_size_mb must be positive"
    ELSE validateMimeTypes(c.MimeTypes, 1)

\* setDefaults(config)
DefaultMaxResponseSizeMB == 10
setDefaults(c) ==
    IF c.MaxResponseSizeMB = 0
    THEN [c EXCEPT !.MaxResponseSizeMB = DefaultMaxResponseSizeMB]
    ELSE c

\* Load(filename) on a file with the given contents
Load(file) ==
    IF ~file.readable THEN ConfigError("failed to read config file")
    ELSE IF ~file.json THEN ConfigError("failed to parse config JSON")
    ELSE IF validateConfig(file.config) # "" THEN ConfigError(validateConfig(file.config))
    ELSE [err |-> FALSE, error |-> "", config |-> setDefaults(file.config)]

\* the lists of at most max elements that are good up to their last element,
\* which is any element of S
ListsEndingIn(good, S, max) ==
    {<<>>} \cup {[j \in 1..k |-> IF j < k THEN good ELSE x] : k \in 1..max, x \in S}

PathsDrawn == {<<>>, <<"a", ".so">>, <<"a", ".dll">>}
NamesDrawn == {<<>>, <<"A", "Plugin">>, <<"A">>}
PluginConfigsDrawn == {[Path |-> p, Name |-> n] : p \in PathsDrawn, n \in NamesDrawn}
MimeTypesDrawn == {"text/html", "application/atom+xml", "application/json", ""}
RulesDrawn ==
    {Rule(mt, ps) : mt \in MimeTypesDrawn,
                    ps \in ListsEndingIn(PluginA, PluginConfigsDrawn, MaxRefs)}
BackendURLsDrawn == {"", "http://one", "https://one", "ftp://one", "http://%zz"}
RedisDrawn == {RedisA, [Addr |-> "", Password |-> "", DB |-> 0]}
SizesDrawn == {-1, 0, 1}
ConfigsDrawn ==
    {Cfg(b, r, rules, <<>>, mb) :
        b \in BackendURLsDrawn, r \in RedisDrawn, mb \in SizesDrawn,
        rules \in ListsEndingIn(Rule("text/html", <<PluginA>>), RulesDrawn, MaxRules)}
FilesDrawn ==
    {File(TRUE, TRUE, cfg) : cfg \in ConfigsDrawn}
        \cup {File(FALSE, FALSE, ConfigBase), File(TRUE, FALSE, ConfigBase)}

InitConfig ==
    /\ ProxyInit
    /\ \E file \in FilesDrawn :
          probe = [fn |-> "Load", file |-> file, done |-> FALSE, loaded |-> NoValue]

\* the drawn file is loaded
ApplyLoad ==
    /\ probe.fn = "Load"
    /\ ~probe.done
    /\ probe' = [probe EXCEPT !.done = TRUE, !.loaded = Load(probe.file)]
    /\ UNCHANGED <<processVars, config, reverseProxy, cache, plugins, mu, pluginsMu, upd,
                   reloads, store, now, srv, ev>>

NextConfig == ApplyLoad

SpecConfig == InitConfig /\ [][NextConfig]_vars

Loaded == probe.fn = "Load" /\ probe.done

Accepted == Loaded /\ ~probe.loaded.err

\* what the claim asks of a rule
RuleIsWellFormed(rule) ==
    /\ rule.MimeType \in validHTMLXMLMimeTypes
    /\ Len(rule.Plugins) >= 1
    /\ \A j \in 1..Len(rule.Plugins) :
          rule.Plugins[j].Path # <<>> /\ rule.Plugins[j].Name # <<>>

ConfigIsWellFormed(cfg) ==
    /\ cfg.BackendURL # ""
    /\ cfg.Redis.Addr # ""
    /\ \A i \in 1..Len(cfg.MimeTypes) : RuleIsWellFormed(cfg.MimeTypes[i])

\* C23: every configuration that Load accepts has only rules with an
\* allow-listed mime type, at least one plugin reference and non-empty plugin
\* paths and names; a file whose configuration breaks one of these, or has no
\* backend URL or no cache address, is rejected with an error.
C23_AcceptedConfigsAreWellFormed ==
    /\ Accepted => ConfigIsWellFormed(probe.loaded.config)
    /\ (Loaded /\ probe.file.readable /\ probe.file.json
            /\ ~ConfigIsWellFormed(probe.file.config))
          => (probe.loaded.err /\ probe.loaded.error # "")

\* a file with two rules was accepted, its size limit defaulted
C23_Witness ==
    /\ Accepted
    /\ Len(probe.loaded.config.MimeTypes) = 2
    /\ Len(probe.loaded.config.MimeTypes[2].Plugins) = 2
    /\ probe.file.config.MaxResponseSizeMB = 0

(***************************************************************************)
(* internal/health: the ready flag and healthHandler behind net/http.      *)
(***************************************************************************)
\* http.StatusProcessing, http.StatusMethodNotAllowed
StatusProcessing == 102
StatusMethodNotAllowed == 405

WriteHeader(code) == [call |-> "WriteHeader", code |-> code, data |-> ""]
Write(data) == [call |-> "Write", code |-> 0, data |-> data]

\* healthHandler(w, r): the calls it makes on the ResponseWriter when the
\* flag it loads is flag
healthHandler(method, flag) ==
    IF method # "GET" THEN <<WriteHeader(StatusMethodNotAllowed)>>
    ELSE IF flag = 1 THEN <<WriteHeader(StatusOK), Write("ok")>>
    ELSE <<WriteHeader(StatusProcessing), Write("starting")>>

NoResponse == [informational |-> <<>>, wroteHeader |-> FALSE, StatusCode |-> 0, Body |-> ""]

\* the ResponseWriter of net/http's server (Go 1.21 and later, the toolchains
\* the project builds with): WriteHeader with a 1xx code other than 101 sends
\* an informational response at once and leaves the final header unwritten;
\* the first Write without a final header sends 200 first
RECURSIVE ServerResponse(_, _, _)
ServerResponse(ops, i, r) ==
    IF i > Len(ops)
    THEN IF r.wroteHeader THEN r ELSE [r EXCEPT !.wroteHeader = TRUE, !.StatusCode = StatusOK]
    ELSE LET op == ops[i]
         IN IF op.call = "WriteHeader"
            THEN IF r.wroteHeader THEN ServerResponse(ops, i + 1, r)
                 ELSE IF op.code >= 100 /\ op.code <= 199 /\ op.code # 101
                 THEN ServerResponse(ops, i + 1,
                         [r EXCEPT !.informational = Append(@, op.code)])
                 ELSE ServerResponse(ops, i + 1,
                         [r EXCEPT !.wroteHeader = TRUE, !.StatusCode = op.code])
            ELSE IF r.wroteHeader
                 THEN ServerResponse(ops, i + 1, [r EXCEPT !.Body = op.data])
                 ELSE ServerResponse(ops, i + 1,
                         [r EXCEPT !.wroteHeader = TRUE, !.StatusCode = StatusOK,
                                   !.Body = op.data])

\* what a client of the health server receives for a request
HealthResponse(method, flag) == ServerResponse(healthHandler(method, flag), 1, NoResponse)

\* the health server listens from health.New/Start until Stop or exit
Listening == main.pc \notin {"start", "exited", "stopped"}

HealthMethods == {"GET", "HEAD", "POST", "PUT", "DELETE"}

\* a client sends a request to /health
HealthRequest(i, method) ==
    /\ Listening
    /\ hreq[i].pc # "sent"
    /\ hreq' = [hreq EXCEPT ![i] = [pc |-> "sent", Method |-> method, out |-> NoValue]]
    /\ ev' = NoEvent
    /\ UNCHANGED <<calls, main, configFile, sigChan, signals, ready, probe, config,
                   reverseProxy, cache, plugins, mu, pluginsMu, upd, reloads, store,
                   now, srv>>

\* healthHandler runs: it loads the flag and answers
HealthAnswer(i) ==
    /\ Listening
    /\ hreq[i].pc = "sent"
    /\ hreq' = [hreq EXCEPT ![i] = [pc |-> "answered", Method |-> hreq[i].Method,
                                    out |-> [flag |-> ready, at |-> main.pc,
                                             response |-> HealthResponse(hreq[i].Method, ready)]]]
    /\ ev' = NoEvent
    /\ UNCHANGED <<calls, main, configFile, sigChan, signals, ready, probe, config,
                   reverseProxy, cache, plugins, mu, pluginsMu, upd, reloads, store,
                   now, srv>>

\* MarkReady() and MarkNotReady(), called from any goroutine
MarkReady ==
    /\ ready' = 1
    /\ ev' = NoEvent
    /\ UNCHANGED <<calls, main, configFile, sigChan, signals, hreq, probe, config,
                   reverseProxy, cache, plugins, mu, pluginsMu, upd, reloads, store,
                   now, srv>>

MarkNotReady ==
    /\ ready' = 0
    /\ ev' = NoEvent
    /\ UNCHANGED <<calls, main, configFile, sigChan, signals, hreq, probe, config,
                   reverseProxy, cache, plugins, mu, pluginsMu, upd, reloads, store,
                   now, srv>>

Health(Clients, Ms) ==
    \/ \E i \in Clients, method \in Ms : HealthRequest(i, method)
    \/ \E i \in Clients : HealthAnswer(i)

NextHealth == Health(HealthClients, HealthMethods) \/ MarkReady \/ MarkNotReady

SpecHealth == Init /\ [][NextHealth]_vars

HealthGot(i) == hreq[i].pc = "answered"
HealthGotGet(i) == HealthGot(i) /\ hreq[i].Method = "GET"

ReadyIffOK ==
    \A i \in HealthClients : HealthGotGet(i) =>
        ((hreq[i].out.response.StatusCode = StatusOK /\ hreq[i].out.response.Body = "ok")
            <=> hreq[i].out.flag = 1)

NotReadyIsProcessing ==
    \A i \in HealthClients : (HealthGotGet(i) /\ hreq[i].out.flag # 1) =>
        /\ hreq[i].out.response.StatusCode = StatusProcessing
        /\ hreq[i].out.response.Body = "starting"

OtherMethodsNotAllowed ==
    \A i \in HealthClients : (HealthGot(i) /\ hreq[i].Method # "GET") =>
        hreq[i].out.response.StatusCode = StatusMethodNotAllowed

GetIsOKOrProcessing ==
    \A i \in HealthClients : HealthGotGet(i) =>
        hreq[i].out.response.StatusCode \in {StatusOK, StatusProcessing}

\* C26: a GET of /health is answered 200 with body "ok" exactly when the
\* ready flag is set and 102 with body "starting" otherwise; any other method
\* is answered 405; whatever MarkReady, MarkNotReady and requests do side by
\* side, a GET is never answered with a status other than 200 or 102.
C26_HealthAnswers ==
    /\ ReadyIffOK
    /\ NotReadyIsProcessing
    /\ OtherMethodsNotAllowed
    /\ GetIsOKOrProcessing

(***************************************************************************)
(* main: start-up, the signal loop and the health flag around reloads.     *)
(***************************************************************************)
\* the proxy variables while no Proxy value exists
NoRedis == [Addr |-> "", Password |-> "", DB |-> 0]
NoConfig == Cfg("", NoRedis, <<>>, <<>>, 0)
NoProxy == [config |-> NoConfig, reverseProxy |-> NoValue,
            cache |-> [Redis |-> NoRedis, gen |-> 0], plugins |-> EmptyMap]

\* a rule without plugins: validateConfig refuses it
ConfigNoPlugins == Cfg("http://one", RedisA, <<Rule("text/html", <<>>)>>, <<>>, 1)

\* what the configuration file may hold when main reads it
FilesMain ==
    {File(TRUE, TRUE, cfg) :
        cfg \in {ConfigBase, ConfigOtherRedis, ConfigBadPlugin, ConfigNoPlugins}}
        \cup {File(TRUE, FALSE, NoConfig)}

Main(pc, newCfg, err) == [pc |-> pc, newCfg |-> newCfg, err |-> err]

\* the process at its start: no proxy, no health server, nothing loaded
InitMain ==
    /\ config = NoProxy.config
    /\ reverseProxy = NoProxy.reverseProxy
    /\ cache = NoProxy.cache
    /\ plugins = NoProxy.plugins
    /\ mu = Unlocked
    /\ pluginsMu = Unlocked
    /\ upd = UpdIdle("none", NoProxy)
    /\ reloads = 0
    /\ store = [r \in {RedisA, RedisB} |-> EmptyMap]
    /\ now = 0
    /\ srv = SrvIdle
    /\ ev = NoEvent
    /\ probe = NoProbe
    /\ calls = [i \in Callers |-> NoCall]
    /\ main = Main("start", NoValue, "")
    /\ configFile \in FilesMain
    /\ sigChan = <<>>
    /\ signals = 0
    /\ ready = 0
    /\ hreq = [i \in HealthClients |-> NoHealthRequest]

\* config.Load at start-up: an error is fatal; otherwise the health server is
\* created, not ready, and started
MainLoad ==
    /\ main.pc = "start"
    /\ LET l == Load(configFile)
       IN IF l.err THEN main' = Main("exited", NoValue, "load")
          ELSE main' = Main("new", l.config, "")
    /\ ev' = NoEvent
    /\ UNCHANGED <<calls, configFile, sigChan, signals, ready, hreq, probe, config,
                   reverseProxy, cache, plugins, mu, pluginsMu, upd, reloads, store,
                   now, srv>>

\* proxy.New(cfg, version): an error is fatal
MainNew ==
    /\ main.pc = "new"
    /\ LET r == NewResult(main.newCfg)
       IN IF r.err
          THEN /\ main' = Main("exited", NoValue, "new")
               /\ UNCHANGED <<config, reverseProxy, cache, plugins>>
          ELSE /\ main' = Main("created", NoValue, "")
               /\ config' = main.newCfg
               /\ reverseProxy' = r.target
               /\ cache' = r.client
               /\ plugins' = r.plugins
    /\ ev' = NoEvent
    /\ UNCHANGED <<calls, configFile, sigChan, signals, ready, hreq, probe, mu,
                   pluginsMu, upd, reloads, store, now, srv>>

\* healthServer.MarkReady(), then the proxy server is started and
\* signal.Notify registers the channel
MainMarkReady ==
    /\ main.pc = "created"
    /\ ready' = 1
    /\ main' = Main("wait", NoValue, "")
    /\ ev' = NoEvent
    /\ UNCHANGED <<calls, configFile, sigChan, signals, hreq, probe, config,
                   reverseProxy, cache, plugins, mu, pluginsMu, upd, reloads, store,
                   now, srv>>

\* the signal loop runs
Looping == main.pc \in {"wait", "load", "update"}

\* a signal is sent to the process: it is queued when the channel, of
\* capacity 1, has room and dropped otherwise
Signal(sig) ==
    /\ Looping
    /\ signals < MaxReloads
    /\ signals' = signals + 1
    /\ sigChan' = IF Len(sigChan) < 1 THEN Append(sigChan, sig) ELSE sigChan
    /\ ev' = NoEvent
    /\ UNCHANGED <<calls, main, configFile, ready, hreq, probe, config, reverseProxy,
                   cache, plugins, mu, pluginsMu, upd, reloads, store, now, srv>>

\* the configuration file is rewritten; a reload reads what the file holds
\* when its Load runs, so the rewriting is placed before the signal
EditFile(file) ==
    /\ main.pc = "wait"
    /\ file # configFile
    /\ configFile' = file
    /\ ev' = NoEvent
    /\ UNCHANGED <<calls, main, sigChan, signals, ready, hreq, probe, config,
                   reverseProxy, cache, plugins, mu, pluginsMu, upd, reloads, store,
                   now, srv>>

\* case syscall.SIGHUP: healthServer.MarkNotReady()
MainReload ==
    /\ main.pc = "wait"
    /\ sigChan # <<>>
    /\ Head(sigChan) = "SIGHUP"
    /\ sigChan' = Tail(sigChan)
    /\ ready' = 0
    /\ main' = Main("load", NoValue, "")
    /\ ev' = NoEvent
    /\ UNCHANGED <<calls, configFile, signals, hreq, probe, config, reverseProxy,
                   cache, plugins, mu, pluginsMu, upd, reloads, store, now, srv>>

\* case syscall.SIGINT, syscall.SIGTERM: both servers are shut down
MainShutdown ==
    /\ main.pc = "wait"
    /\ sigChan # <<>>
    /\ Head(sigChan) = "SIGTERM"
    /\ sigChan' = Tail(sigChan)
    /\ main' = Main("stopped", NoValue, "")
    /\ ev' = NoEvent
    /\ UNCHANGED <<calls, configFile, signals, ready, hreq, probe, config,
                   reverseProxy, cache, plugins, mu, pluginsMu, upd, reloads, store,
                   now, srv>>

MainReloadLoad_Exits ==
    /\ main.pc = "load"
    /\ LET l == Load(configFile)
       IN IF l.err
          THEN /\ main' = Main("exited", NoValue, "load")
               /\ UNCHANGED ready
          ELSE /\ main' = Main("update", l.config, "")
               /\ UNCHANGED ready
    /\ ev' = NoEvent
    /\ UNCHANGED <<calls, configFile, sigChan, signals, hreq, probe, config,
                   reverseProxy, cache, plugins, mu, pluginsMu, upd, reloads, store,
                   now, srv>>

\* config.Load(configFile) in the loop: on an error MarkReady() and continue
MainReloadLoad ==
    /\ main.pc = "load"
    /\ LET l == Load(configFile)
       IN IF l.err
          THEN /\ main' = Main("wait", NoValue, "load")
               /\ ready' = 1
          ELSE /\ main' = Main("update", l.config, "")
               /\ UNCHANGED ready
    /\ ev' = NoEvent
    /\ UNCHANGED <<calls, configFile, sigChan, signals, hreq, probe, config,
                   reverseProxy, cache, plugins, mu, pluginsMu, upd, reloads, store,
                   now, srv>>

\* proxyServer.UpdateConfig(newCfg) is called
MainUpdateConfig ==
    /\ main.pc = "update"
    /\ upd.result = "none"
    /\ UpdateConfigCall(main.newCfg)

MainUpdateConfigReturns_ReadyOnSuccess ==
    /\ main.pc = "update"
    /\ upd.pc = "idle"
    /\ upd.result # "none"
    /\ ready' = IF upd.result = "ok" THEN 1 ELSE ready
    /\ main' = Main("wait", NoValue, IF upd.result = "ok" THEN "" ELSE "update")
    /\ upd' = [upd EXCEPT !.result = "none"]
    /\ ev' = NoEvent
    /\ UNCHANGED <<calls, configFile, sigChan, signals, hreq, probe, config,
                   reverseProxy, cache, plugins, mu, pluginsMu, reloads, store, now,
                   srv>>

\* UpdateConfig has returned: MarkReady() on an error and on success alike
MainUpdateConfigReturns ==
    /\ main.pc = "update"
    /\ upd.pc = "idle"
    /\ upd.result # "none"
    /\ ready' = 1
    /\ main' = Main("wait", NoValue, IF upd.result = "ok" THEN "" ELSE "update")
    /\ upd' = [upd EXCEPT !.result = "none"]
    /\ ev' = NoEvent
    /\ UNCHANGED <<calls, configFile, sigChan, signals, hreq, probe, config,
                   reverseProxy, cache, plugins, mu, pluginsMu, reloads, store, now,
                   srv>>

\* the steps of the goroutine running main
MainSteps ==
    \/ MainLoad
    \/ MainNew
    \/ MainMarkReady
    \/ MainReload
    \/ MainShutdown
    \/ MainReloadLoad
    \/ MainUpdateConfig
    \/ MainUpdateConfigReturns

\* the steps of UpdateConfig once main has called it
UpdateConfigSteps ==
    \/ UpdateConfigLock
    \/ UpdateConfigPrepare
    \/ LoadPluginsLock
    \/ LoadPluginsFail
    \/ LoadPluginsInstall

RequestsMain == {Req("GET", "/a", "", "", {})}
ResponsesMain ==
    {Resp(ContentTypeHTML, StatusOK, "absent", CacheControlNoStore, Nil, 1, "accurate",
          NoFailure)}

\* main, the signals sent to it and the requests the proxy serves
NextLoop ==
    \/ MainSteps
    \/ UpdateConfigSteps
    \/ \E sig \in {"SIGHUP", "SIGTERM"} : Signal(sig)
    \/ \E file \in FilesMain : EditFile(file)
    \/ Looping /\ Serve(RequestsMain, ResponsesMain)

SpecLoop == InitMain /\ [][NextLoop]_vars

\* the same with a client of the health server
NextMain == NextLoop \/ Health({1}, {"GET"})

SpecMain == InitMain /\ [][NextMain]_vars

(***************************************************************************)
(* Properties of main.                                                     *)
(***************************************************************************)
\* the step of the loop in which config.Load fails
ReloadLoadFails == main.pc = "load" /\ main'.pc # "load" /\ Load(configFile).err

\* C24: a configuration file that cannot be loaded or validated ends the
\* process only at start-up; when it is met on a reload signal UpdateConfig
\* is not called, configuration, backend target, cache handle and registry
\* stay as they are, and main goes back to waiting for signals with the
\* servers running.
C24_BadFileIsFatalOnlyAtStart ==
    /\ [][ReloadLoadFails =>
            /\ main'.pc = "wait"
            /\ upd' = upd /\ reloads' = reloads
            /\ config' = config /\ reverseProxy' = reverseProxy
            /\ cache' = cache /\ plugins' = plugins]_vars
    /\ [][main'.pc = "exited" => main.pc \in {"start", "new"}]_vars
    /\ [][(main.pc = "start" /\ main'.pc # "start" /\ Load(configFile).err)
            => main'.pc = "exited"]_vars
    /\ [](upd.pc # "idle" => (main.pc = "update" /\ validateConfig(upd.cfg) = ""))

\* after a reload that failed in Load the proxy has a request at the backend
\* and the next reload signal is queued
C24_Witness ==
    /\ main.pc = "wait"
    /\ main.err = "load"
    /\ signals = 2
    /\ sigChan = <<"SIGHUP">>
    /\ srv.pc = "forwarded"
    /\ reloads = 0
    /\ ~configFile.json

\* a reload is in progress: MarkNotReady() has run, the attempt has not ended
Reloading == main.pc \in {"load", "update"}

\* the flag is set only once the proxy is created and while no reload runs
FlagOnlyWhenServing == ready = 1 => main.pc \in {"wait", "stopped"}

OKOnlyWhenServing ==
    \A i \in HealthClients :
        (HealthGotGet(i) /\ hreq[i].out.response.StatusCode = StatusOK
            /\ hreq[i].out.response.Body = "ok") => hreq[i].out.at = "wait"

ProcessingUntilServing ==
    \A i \in HealthClients :
        (HealthGotGet(i) /\ hreq[i].out.at \in {"new", "load", "update"})
            => hreq[i].out.response.StatusCode = StatusProcessing

\* C27: /health reports ready only once the proxy has been created and while
\* no reload is in progress; a GET answered before proxy.New has succeeded,
\* or between the start of a reload and its end, is answered 102.
C27_ReadyOnlyWhenServing ==
    /\ FlagOnlyWhenServing
    /\ OKOnlyWhenServing
    /\ ProcessingUntilServing

\* the goroutines run: main, UpdateConfig inside it, and the backend answers
\* the request a handler waits for
SpecLoopLive ==
    /\ SpecLoop
    /\ WF_vars(MainSteps)
    /\ WF_vars(UpdateConfigSteps)
    /\ WF_vars(Looping /\ \E resp \in ResponsesMain, writeOK \in BOOLEAN :
                              ServeHTTPBackend(resp, writeOK))

\* a GET of /health would be answered 200 "ok"
AnswersOK ==
    /\ HealthResponse("GET", ready).StatusCode = StatusOK
    /\ HealthResponse("GET", ready).Body = "ok"

IsPlugin(pc) ==
    /\ PluginFile(pc).shape \in {"value", "pointer", "factory"}
    /\ PluginFile(pc).html
    /\ PluginFile(pc).xml

\* C25: a symbol that is a value with both methods, or a function without
\* arguments returning such a value, is loaded and registered under its path
\* and name; a symbol of any other shape is refused with an error.
C25_ValueOrFactoryIsLoaded ==
    (probe.fn = "loadPlugin" /\ probe.done /\ Opens) =>
        IF IsPlugin(probe.pc)
        THEN /\ ~probe.loaded.err
             /\ probe.loaded.plugin.path = probe.pc.Path
             /\ probe.loaded.plugin.name = probe.pc.Name
        ELSE probe.loaded.err

\* the same without the factory shape
ValueIsLoaded ==
    (probe.fn = "loadPlugin" /\ probe.done /\ Opens
        /\ PluginFile(probe.pc).shape # "factory") =>
        IF IsPlugin(probe.pc)
        THEN /\ ~probe.loaded.err
             /\ probe.loaded.plugin.path = probe.pc.Path
             /\ probe.loaded.plugin.name = probe.pc.Name
        ELSE probe.loaded.err

(***************************************************************************)
(* Requests that are not GET.                                              *)
(***************************************************************************)
NotGet(req) == req.Method # "GET"

\* the step in which ServeHTTP, holding the read lock, decides where the
\* request goes
Dispatches == srv.pc = "rlock" /\ srv'.pc # "rlock"

\* C29: a request whose method is not GET is never answered from the cache
\* and never stored: it always goes to the backend, even when the cache holds
\* a live entry for its key; a 200 response of a configured mime type to it
\* is run through the plugins like any other and stamped MISS, and the step
\* that answers it leaves the store as it was.
C29_OnlyGetUsesTheCache ==
    /\ [][(Dispatches /\ NotGet(srv.req)) => srv'.pc = "forwarded"]_vars
    /\ []((ev.kind = "served" /\ NotGet(ev.req)) => (FromBackend /\ ~ev.set))
    /\ [][(srv.pc = "forwarded" /\ NotGet(srv.req)) => store' = store]_vars
    /\ []((FromBackend /\ NotGet(ev.req) /\ Configured(ev) /\ ev.out.source = "backend")
            => /\ ev.out.XCache = Some("MISS")
               /\ ev.out =
                    modifyResponse(ev.resp, [ev.req EXCEPT !.Method = "GET"], ev.cfg,
                                   plugins, EmptyMap, now, FALSE).out)

\* a POST was sent to the backend although the cache holds an entry for its
\* key; the answer went through the plugins, is stamped MISS and was not stored
C29_Witness ==
    /\ FromBackend
    /\ ev.req.Method = "POST"
    /\ generateKey(ev.req) \in DOMAIN store[cache.Redis]
    /\ Configured(ev)
    /\ Piped(ev)
    /\ ev.out.XCache = Some("MISS")
    /\ ~ev.set

(***************************************************************************)
(* The state a request is handled against.                                 *)
(***************************************************************************)
\* a handler holds the read lock and waits for the backend
InFlight == srv.pc = "forwarded"

\* nothing of the proxy state changes while a request is in flight
StateHeldDuringRequest ==
    [][InFlight => /\ config' = config
                   /\ reverseProxy' = reverseProxy
                   /\ cache' = cache
                   /\ plugins' = plugins]_vars

\* a reload asked for while a request is in flight waits for it
ReloadWaitsForRequest == (InFlight /\ upd.pc # "idle") => upd.pc = "lock"

\* the cache handle a request is answered with is the client for the
\* settings of the configuration it is answered with
HandleOfRequestConfig == ev.kind = "served" => cache.Redis = ev.cfg.Redis

\* the registry a request is answered with holds the plugins of the
\* configuration it is answered with, and the backend is that configuration's
RegistryOfRequestConfig ==
    ev.kind = "served" =>
        /\ DOMAIN plugins = ConfigKeys(ev.cfg)
        /\ reverseProxy = urlParse(ev.cfg.BackendURL).target

\* C30: a request is handled against one generation of the state: nothing
\* changes while it waits for the backend, a reload asked for meanwhile takes
\* effect only after it, and the cache handle, the configuration and the
\* registry it is handled with belong to the same applied configuration.
C30_OneGenerationPerRequest ==
    /\ StateHeldDuringRequest
    /\ []ReloadWaitsForRequest
    /\ []RegistryOfRequestConfig
    /\ []HandleOfRequestConfig

(***************************************************************************)
(* The references of the active configuration and the registry.            *)
(***************************************************************************)
\* Manager.GetPlugin(path, name) finds a plugin for the reference
Resolves(registry, pc) == PluginKey(pc.Path, pc.Name) \in DOMAIN registry

\* no list of plugins the configuration gives for one of its mime types runs
\* into "plugin not found" with the registry
NeverNotFound(cfg, registry, req) ==
    \A i \in 1..Len(cfg.MimeTypes) :
        InvokePlugins(GetPluginsForMimeType(cfg, cfg.MimeTypes[i].MimeType),
                      registry, req, NoFailure).error.kind # "plugin not found"

\* C31: whenever a request can run (no reload holds the write lock), every
\* plugin reference of the active configuration resolves through GetPlugin
\* to a loaded plugin, after New, after a successful
\* and after a failed UpdateConfig; the plugin loop of a request never
\* returns "plugin not found".
C31_ReferencesResolve ==
    /\ ~mu.writer =>
          \A i \in 1..Len(PluginRefs(config)) :
              Resolves(plugins, PluginRefs(config)[i].pc)
    /\ srv.pc = "forwarded" => NeverNotFound(config, plugins, srv.req)
    /\ (ev.kind = "served" /\ ev.out.source = "backend")
          => NeverNotFound(ev.cfg, plugins, ev.req)

\* after a reload that failed while loading plugins, a request has been
\* answered with a body the plugins of the running configuration worked on
C31_Witness ==
    /\ upd.pc = "idle"
    /\ upd.result = "failed to reload plugins"
    /\ ev.kind = "served"
    /\ ev.out.source = "backend"
    /\ ev.out.Body.applied # <<>>

(***************************************************************************)
(* The cache handle and the cache settings of the active configuration.    *)
(***************************************************************************)
\* the handle is a client for the settings of the active configuration
HandleAgrees(st) == st.cache.Redis = st.config.Redis

\* a reload that starts with handle and settings in agreement and succeeds,
\* or fails before the cache client is looked at, ends with them in agreement
AgreementKeptByCleanReload ==
    (/\ upd.pc = "idle"
     /\ upd.result \in {"ok", "invalid backend URL", "failed to create new cache client"}
     /\ HandleAgrees(upd.before))
        => HandleAgrees(Snapshot)

\* a successful reload never repairs a disagreement unless it changes the
\* settings: with equal settings the handle is kept as it is
SuccessKeepsHandleOnEqualSettings ==
    (/\ upd.pc = "idle"
     /\ upd.result = "ok"
     /\ upd.before.config.Redis = config.Redis)
        => cache = upd.before.cache

\* C32: whenever no reload holds the write lock, after any sequence of
\* successful and failed reloads, the active cache handle is the client
\* created from the cache settings of the active configuration.
C32_HandleOfActiveConfiguration ==
    ~mu.writer => HandleAgrees(Snapshot)

(***************************************************************************)
(* Reloads that move a plugin between rules of different mime classes.     *)
(***************************************************************************)
\* one rule of either class with one plugin that has both methods, only
\* ProcessXMLTree or only ProcessHTMLTree, and a configuration with both rules
ConfigsClasses ==
    {Cfg("http://one", RedisA, <<Rule(mt, <<pc>>)>>, <<>>, 1) :
        mt \in {"text/html", "application/xml"}, pc \in {PluginB, PluginX, PluginH}}
    \cup {ConfigTwoRules}

NextClasses == Reload(ConfigsClasses)

SpecClasses == Init /\ [][NextClasses]_vars

\* the instance has the method the processor calls for the mime type
HasMethodFor(loaded, mimeType) ==
    IF isHTMLMimeType(mimeType) THEN loaded.plugin.html ELSE loaded.plugin.xml

\* the mime types of the rules of cfg that reference the key
MimeTypesReferencing(cfg, key) ==
    {PluginRefs(cfg)[i].MimeType :
        i \in {j \in 1..Len(PluginRefs(cfg)) :
                  PluginKey(PluginRefs(cfg)[j].pc.Path, PluginRefs(cfg)[j].pc.Name) = key}}

\* C33: whenever no reload holds the write lock, every plugin of the
\* registry passes the capability validation for the mime class of every
\* rule of the active configuration that references it: it was accepted by
\* the loader's checks and has the method that class calls, also when it was
\* loaded under a rule of the other class and is reused.
C33_ValidatedForEveryClass ==
    ~mu.writer =>
        \A k \in DOMAIN plugins :
            \A mt \in MimeTypesReferencing(config, k) :
                /\ validatePlugin(plugins[k].plugin, mt)
                /\ HasMethodFor(plugins[k], mt)

\* a reload succeeded that references under an HTML rule a plugin the
\* registry held for an XML rule only, and the instance was reused
C33_Witness ==
    /\ upd.pc = "idle"
    /\ upd.result = "ok"
    /\ \E k \in DOMAIN plugins \cap DOMAIN upd.before.plugins :
          /\ plugins[k] = upd.before.plugins[k]
          /\ MimeTypesReferencing(upd.before.config, k) = {"application/xml"}
          /\ "text/html" \in MimeTypesReferencing(config, k)

(***************************************************************************)
(* Registry keys of references whose path or name contains the separator.  *)
(***************************************************************************)
PluginsKeys == {PluginA, PluginNested, PluginSplit}

\* one text/html rule with one or two of the references
ConfigsKeys ==
    {Cfg("http://one", RedisA, <<Rule("text/html", ps)>>, <<>>, 1) :
        ps \in {<<pc>> : pc \in PluginsKeys}
               \cup {<<PluginA, PluginNested>>, <<PluginNested, PluginSplit>>}}

NextKeys == Reload(ConfigsKeys)

SpecKeys == Init /\ [][NextKeys]_vars

\* the name can be the name of an exported symbol: it has no separator
IsIdentifier(name) == \A i \in 1..Len(name) : name[i] # "/"

\* two references with the same key are the same reference
SameKeySamePair(pc1, pc2) ==
    PluginKey(pc1.Path, pc1.Name) = PluginKey(pc2.Path, pc2.Name) => pc1 = pc2

\* among references whose names are identifiers the key tells the pairs apart
InjectiveOnIdentifiers ==
    \A pc1, pc2 \in {pc \in PluginConfigs \cup PluginsKeys : IsIdentifier(pc.Name)} :
        SameKeySamePair(pc1, pc2)

\* a reference whose key is new to the registry gets an instance loaded for
\* its own path and name
NewKeysGetTheirOwnInstance ==
    (upd.pc = "idle" /\ upd.result = "ok") =>
        \A i \in 1..Len(PluginRefs(config)) :
            LET pc == PluginRefs(config)[i].pc
                key == PluginKey(pc.Path, pc.Name)
            IN key \notin DOMAIN upd.before.plugins
                  => (plugins[key].path = pc.Path /\ plugins[key].name = pc.Name)

\* GetPlugin(path, name) for a reference of the active configuration returns
\* a plugin that was loaded from that path under that name
GetPluginReturnsOwnPair ==
    ~mu.writer =>
        \A i \in 1..Len(PluginRefs(config)) :
            LET pc == PluginRefs(config)[i].pc
                got == Lookup(plugins, PluginKey(pc.Path, pc.Name))
            IN Resolves(plugins, pc) => (got.path = pc.Path /\ got.name = pc.Name)

\* C34: two references with different (path, name) pairs never share a
\* registry entry: the key is different for different pairs, GetPlugin for a
\* reference of the active configuration returns the plugin loaded for that
\* path and name, and a reload does not reuse an instance loaded for another
\* pair.
C34_KeyIsInjective ==
    /\ \A pc1, pc2 \in PluginConfigs \cup PluginsKeys : SameKeySamePair(pc1, pc2)
    /\ GetPluginReturnsOwnPair

(***************************************************************************)
(* The registry after a successful load.                                   *)
(***************************************************************************)
\* the plugin identities a configuration references
Identities(cfg) == {PluginRefs(cfg)[i].pc : i \in 1..Len(PluginRefs(cfg))}

\* LoadPlugins returned nil last: in New, or in an UpdateConfig that succeeded
LoadSucceeded == upd.pc = "idle" /\ upd.result \in {"none", "ok"}

\* the registry has one entry for each identity the configuration references
\* and no other entry
OneEntryPerIdentity ==
    /\ DOMAIN plugins = ConfigKeys(config)
    /\ \A pc \in Identities(config) :
          LET got == Lookup(plugins, PluginKey(pc.Path, pc.Name))
          IN Resolves(plugins, pc) /\ got.path = pc.Path /\ got.name = pc.Name
    /\ \A k \in DOMAIN plugins :
          [Path |-> plugins[k].path, Name |-> plugins[k].name] \in Identities(config)

\* a step of a request, GetPlugin included
RequestStep == srv' # srv

\* C35: after a successful LoadPlugins(cfg) the registry's keys are exactly
\* the identities cfg references: what is no longer referenced is gone, an
\* identity referenced by several rules has one entry, and no step of a
\* request, GetPlugin included, changes the registry.
C35_RegistryIsExactlyTheReferences ==
    /\ [](LoadSucceeded => OneEntryPerIdentity)
    /\ [][RequestStep => plugins' = plugins]_vars

\* a reload succeeded that dropped a plugin of the registry, and a request
\* has since been answered with a body a plugin worked on
C35_Witness ==
    /\ upd.pc = "idle"
    /\ upd.result = "ok"
    /\ DOMAIN upd.before.plugins \ DOMAIN plugins # {}
    /\ ev.kind = "served"
    /\ ev.out.source = "backend"
    /\ ev.out.Body.applied # <<>>

\* the registry holds one entry for a plugin that two rules reference
C35_WitnessSeveralRules ==
    /\ LoadSucceeded
    /\ Len(PluginRefs(config)) > 2
    /\ \E i, j \in 1..Len(PluginRefs(config)) :
          i # j /\ PluginRefs(config)[i].pc = PluginRefs(config)[j].pc

(***************************************************************************)
(* Cache writes and the outcome of the pipeline.                           *)
(***************************************************************************)
\* reading the body, parsing, a plugin of the list or rendering failed for
\* the exchange
ProcessingFailed(e) ==
    /\ e.kind = "served"
    /\ e.out.source # "cache"
    /\ Configured(e)
    /\ (e.resp.fail.stage = "read" \/ PipelineFailed(e))

\* the body every plugin of the list has worked on, in the order of the list
Transformed(cfg, contentType, n) ==
    LET list == GetPluginsForMimeType(cfg, extractMimeType(contentType))
        keys == [i \in 1..Len(list) |-> PluginKey(list[i].Path, list[i].Name)]
    IN Body(n + Len(list), keys)

\* a request whose processing failed wrote nothing to the cache
FailedRequestLeavesStore ==
    [][ProcessingFailed(ev') => (~ev'.set /\ store' = store)]_vars

\* a cache write follows a pipeline that returned without an error
SetOnlyWithoutError ==
    (ev.kind = "served" /\ ev.set) =>
        ~processResponse(ev.resp, ev.req, extractMimeType(ev.resp.ContentType),
                         ev.cfg, plugins).err

\* every stored body is the upstream body as all plugins of its rule left it
StoredBodiesAreTransformed ==
    \A r \in DOMAIN store :
        \A k \in DOMAIN store[r] :
            LET o == store[r][k].Origin
            IN store[r][k].Body = Transformed(o.cfg, o.ContentType, o.Len)

\* a stored body that is not the transformed one is that of an oversized
\* response: the first bytes of the upstream body, no plugin applied
UntransformedOnlyWhenOversized ==
    \A r \in DOMAIN store :
        \A k \in DOMAIN store[r] :
            LET o == store[r][k].Origin
            IN \/ store[r][k].Body = Transformed(o.cfg, o.ContentType, o.Len)
               \/ /\ o.Len > MaxSize(o.cfg)
                  /\ store[r][k].Body.applied = <<>>

\* a request whose processing failed at a plugin was answered
C36_WitnessFailed == ProcessingFailed(ev) /\ ev.resp.fail.stage = "plugin" /\ ev.req.Method = "GET"

\* C36: a cache write happens only after the whole pipeline has succeeded:
\* when reading the body, parsing, a plugin call or rendering fails, nothing
\* is written for that request, and the cache never holds a body that is
\* untransformed or transformed in part only.
C36_CacheWriteOnlyAfterSuccess ==
    /\ FailedRequestLeavesStore
    /\ []SetOnlyWithoutError
    /\ []StoredBodiesAreTransformed

(***************************************************************************)
(* The Content-Length of a response served from the cache.                 *)
(***************************************************************************)
\* the last step answered a request from the cache
FromCache == ev.kind = "served" /\ ev.out.source = "cache"

\* the Content-Length replayed is the one the backend sent with the body the
\* entry was made from
ReplayedLengthIsUpstreams ==
    FromCache =>
        /\ ev.out.ContentLength = ev.entry.Headers.ContentLength
        /\ ev.entry.Headers.ContentLength
              \in {ContentLengthOf(k, ev.entry.Origin.Len) : k \in ContentLengthKinds}

\* the response delivered on a miss declares the length of the processed body
MissDeclaresProcessedLength ==
    (FromBackend /\ ev.set) => ev.out.ContentLength = ev.out.Body.len

\* C37: a response served from the cache declares in Content-Length the
\* length of the stored, processed body that is replayed.
C37_ReplayedLengthIsBodyLength ==
    (FromCache /\ ev.entry.Headers.ContentLength >= 0)
        => ev.out.ContentLength = ev.entry.Body.len

(***************************************************************************)
(* Cache entries across reloads.                                           *)
(***************************************************************************)
\* the running rule with another plugin list, with both rules, without the
\* text/html rule, and a configuration whose reload fails at a plugin
ConfigXMLOnly == Cfg("http://one", RedisA, <<Rule("application/xml", <<PluginB>>)>>, <<>>, 1)

ConfigsSurvive == {ConfigBase, ConfigTwoRules, ConfigXMLOnly, ConfigBadPlugin}

NextSurvive ==
    Reload(ConfigsSurvive) \/ Serve({Req("GET", "/a", "", "", {})}, ResponsesBasic)

SpecSurvive == Init /\ [][NextSurvive]_vars

\* the last reload succeeded and left the cache settings as they were
AfterUnchangedReload ==
    /\ upd.pc = "idle"
    /\ upd.result = "ok"
    /\ upd.before.config.Redis = config.Redis

\* the store the handle talks to has a live entry for the request's key
LiveEntry(req) == CacheGet(store[cache.Redis], req, now, TRUE).hit

\* a GET with a live entry is looked up after such a reload, the read works
SurvivingLookup ==
    /\ Dispatches
    /\ AfterUnchangedReload
    /\ srv.req.Method = "GET"
    /\ LiveEntry(srv.req)
    /\ ev'.readOK

\* no step of a reload writes to or deletes from a store
ReloadKeepsStore == [][upd' # upd => store' = store]_vars

\* such a reload keeps the cache handle
UnchangedReloadKeepsHandle == AfterUnchangedReload => cache = upd.before.cache

\* the GET is answered HIT from the stored entry, without the backend and
\* without a plugin, whatever the rules of the new configuration
SurvivingEntryIsHit ==
    [][SurvivingLookup =>
          /\ ev'.kind = "served"
          /\ ev'.out.source = "cache"
          /\ ev'.out.XCache = Some("HIT")
          /\ ev'.entry = store[cache.Redis][generateKey(srv.req)]
          /\ ev'.target = NoValue
          /\ srv'.pc = "idle"
          /\ store' = store]_vars

\* the body the client receives is the stored body
SurvivingHitHasStoredBody ==
    [][SurvivingLookup =>
          ev'.out.Body = store[cache.Redis][generateKey(srv.req)].Body]_vars

\* C38: cache entries survive a reload: after a successful UpdateConfig that
\* leaves the cache settings unchanged, a GET whose key has a live entry is
\* answered HIT with the stored body, without the backend and without a
\* plugin, also when the reload changed the plugin list of the mime type or
\* removed its rule.
C38_EntriesSurviveReload ==
    /\ ReloadKeepsStore
    /\ []UnchangedReloadKeepsHandle
    /\ SurvivingEntryIsHit
    /\ SurvivingHitHasStoredBody

\* an entry stored under the text/html rule was answered HIT after a reload
\* that removed the rule
C38_WitnessRuleRemoved ==
    /\ FromCache
    /\ AfterUnchangedReload
    /\ config = ConfigXMLOnly
    /\ extractMimeType(ev.entry.Origin.ContentType) = "text/html"

(***************************************************************************)
(* The cookie denylist and the cache.                                      *)
(***************************************************************************)
\* the backend's answer to a request is handled by modifyResponse
Answering == srv.pc = "forwarded" /\ srv'.pc # "forwarded"

\* C39: the cookie denylist restricts cache writes only: a GET that carries
\* a denylisted cookie is looked up like any other GET and answered HIT when
\* its key has a live entry, and the response the backend gives to such a
\* request is never written to the cache.
C39_DenylistRestrictsWritesOnly ==
    /\ [][(/\ Dispatches
           /\ srv.req.Method = "GET"
           /\ hasDenylistedCookies(srv.req, config)
           /\ LiveEntry(srv.req)
           /\ ev'.readOK)
             => /\ ev'.kind = "served"
                /\ ev'.out.source = "cache"
                /\ ev'.out.XCache = Some("HIT")
                /\ ev'.entry = store[cache.Redis][generateKey(srv.req)]]_vars
    /\ [][(Answering /\ hasDenylistedCookies(srv.req, config))
             => (~ev'.set /\ store' = store)]_vars

\* a GET with a denylisted cookie has been answered from an entry that a GET
\* without the cookie stored
C39_Witness ==
    /\ FromCache
    /\ hasDenylistedCookies(ev.req, config)
    /\ ~hasDenylistedCookies(ev.entry.Origin.req, config)
    /\ generateKey(ev.req) = generateKey(ev.entry.Origin.req)

\* a GET with a denylisted cookie has been answered by the backend with a
\* response that is cacheable but for the cookie
C39_WitnessNotWritten ==
    /\ FromBackend
    /\ ev.req.Method = "GET"
    /\ hasDenylistedCookies(ev.req, ev.cfg)
    /\ ev.resp = ResponseCacheable
    /\ ~ev.set

====
